---- MODULE Spec2Model ----
(***************************************************************************)
(* A model of the convo-ai-go-server agent service: the two gin handlers   *)
(* InviteAgent and RemoveAgent, the core functions HandleInviteAgent and   *)
(* HandleRemoveAgent they call, the helpers (validateInviteRequest,        *)
(* validateRemoveRequest, getTTSConfig, isStringUID, getRemoteRtcUIDs,     *)
(* randomString) and the two collaborators the core talks to: the token    *)
(* issuer (TokenGenerator) and the agent platform reached through          *)
(* http.Client.Do.  The start of the server is modelled too: the          *)
(* validation of the configuration (ValidateEnvironment) and the           *)
(* middleware chain of the router (NoCache, CORShttpHeaders, Timestamp).   *)
(*                                                                         *)
(* Strings on which the code computes byte by byte (len, range, URL        *)
(* parsing, ParseFloat) are sequences of one-byte strings; strings that    *)
(* the code only compares or copies are TLA+ strings.  An error is a       *)
(* record whose msg is the sequence of words of its text, with the values  *)
(* that fmt.Errorf formats into it (status, body, url) kept as fields.     *)
(***************************************************************************)
EXTENDS Integers, Sequences, FiniteSets, TLC

VARIABLES
    config,     \* *ConvoAIConfig held by the ConvoAIService
    workers,    \* the handler goroutines that serve requests
    now,        \* the wall clock read by time.Now()
    pc,         \* pc[h]: where handler h stands
    req,        \* req[h]: the HTTP request handler h is serving
    tokenReqs,  \* tokenReqs[h]: TokenRequests passed to GenRtcToken, in order
    tokenRets,  \* tokenRets[h]: what GenRtcToken returned, in order
    ttsCalls,   \* ttsCalls[h]: number of getTTSConfig calls made
    sent,       \* sent[h]: HTTP requests handed to client.Do, in order
    doRets,     \* doRets[h]: what client.Do returned, in order
    platform,   \* platform[h]: what the agent platform did with h's request
    ret,        \* ret[h]: what HandleInviteAgent / HandleRemoveAgent returned
    response,   \* response[h]: the HTTP response written with c.JSON
    draws,      \* draws[h]: what time.Now() and rand.Read gave for the name
    calls       \* applications of the helpers made on their own, in order

vars == <<config, workers, now, pc, req, tokenReqs, tokenRets, ttsCalls, sent,
          doRets, platform, ret, response, draws, calls>>

(***************************************************************************)
(* Bounds and program constants                                            *)
(***************************************************************************)
MaxTime == 1
MaxUIDLen == 3
MaxCalls == 2

MinChannelLen == 3
MaxChannelLen == 64
RandomLen == 6
StatusOK == 200
StatusBadRequest == 400
StatusInternalServerError == 500

Handlers == {"h1", "h2"}

(***************************************************************************)
(* Byte strings                                                            *)
(***************************************************************************)
Rep(n, c) == [i \in 1..n |-> c]

RECURSIVE Concat(_)
Concat(ss) == IF ss = <<>> THEN <<>> ELSE Head(ss) \o Concat(Tail(ss))

Bytes(s) == {s[i] : i \in 1..Len(s)}

Digits == {"0", "1", "2", "3", "4", "5", "6", "7", "8", "9"}

\* ASCII control bytes that can occur in the inputs (url.Parse rejects them).
CtlBytes == {"\n", "\t", "\r"}

(***************************************************************************)
(* Errors                                                                  *)
(***************************************************************************)
NoBody == [kind |-> "none", idType |-> "absent", id |-> <<>>]

Err(msg) == [msg |-> msg, status |-> 0, body |-> NoBody, url |-> <<>>]

NoErr == Err(<<>>)

IsErr(e) == e.msg # <<>>

\* fmt.Errorf("<prefix>: %v", err)
Wrap(prefix, e) == [e EXCEPT !.msg = prefix \o e.msg]

Mentions(e, word) == \E i \in 1..Len(e.msg) : e.msg[i] = word

(***************************************************************************)
(* Strings                                                                 *)
(***************************************************************************)
\* strings.Split(s, sep) for a one-byte separator: the pieces between the
\* separators, the empty ones among them; one empty piece for the empty string.
RECURSIVE Split(_, _)
Split(s, sep) ==
    IF \E i \in 1..Len(s) : s[i] = sep
    THEN LET i == CHOOSE k \in 1..Len(s) :
                     /\ s[k] = sep
                     /\ \A j \in 1..(k - 1) : s[j] # sep
         IN  <<SubSeq(s, 1, i - 1)>> \o Split(SubSeq(s, i + 1, Len(s)), sep)
    ELSE <<s>>

WhiteSpace == {" ", "\t", "\n", "\r"}

\* strings.TrimSpace(s)
RECURSIVE TrimSpace(_)
TrimSpace(s) ==
    IF s = <<>> THEN s
    ELSE IF s[1] \in WhiteSpace THEN TrimSpace(Tail(s))
    ELSE IF s[Len(s)] \in WhiteSpace THEN TrimSpace(SubSeq(s, 1, Len(s) - 1))
    ELSE s

Text == <<"t", "e", "x", "t">>

Audio == <<"a", "u", "d", "i", "o">>

validModalities == {Text, Audio}

(***************************************************************************)
(* isStringUID                                                             *)
(***************************************************************************)
\* Mutant: "0" is a wildcard and counts as a string UID (the lines the source
\* keeps commented out).
isStringUID_ZeroWildcard(s) ==
    s = <<"0">> \/ \E i \in 1..Len(s) : s[i] \notin Digits

isStringUID(s) == \E i \in 1..Len(s) : s[i] \notin Digits


\* Mutant: the requester "0" is expanded to the wildcard (the lines the source
\* keeps commented out).
getRemoteRtcUIDs_Wildcard(requesterID) ==
    IF requesterID = <<"0">> THEN <<<<"*">>>> ELSE <<requesterID>>

getRemoteRtcUIDs(requesterID) == <<requesterID>>

(***************************************************************************)
(* strconv.ParseFloat(s, 64) on the syntax the inputs use: an optional     *)
(* sign, decimal digits with at most one point, and the special values     *)
(* NaN and Inf.  A finite value is kept as sign, mantissa and decimal      *)
(* exponent with the trailing zeros of the fraction removed, so that "1"   *)
(* and "1.0" parse to the same number.                                     *)
(***************************************************************************)
DigitSeq == <<"0", "1", "2", "3", "4", "5", "6", "7", "8", "9">>

DigitVal(c) == (CHOOSE i \in 1..10 : DigitSeq[i] = c) - 1

ToLower(c) ==
    CASE c = "N" -> "n" [] c = "A" -> "a" [] c = "I" -> "i" [] c = "F" -> "f"
      [] OTHER -> c

Lower(s) == [i \in 1..Len(s) |-> ToLower(s[i])]

HasSign(s) == Len(s) > 0 /\ s[1] \in {"+", "-"}

Unsigned(s) == IF HasSign(s) THEN Tail(s) ELSE s

RECURSIVE DigitsValue(_)
DigitsValue(ds) ==
    IF ds = <<>> THEN 0
    ELSE 10 * DigitsValue(SubSeq(ds, 1, Len(ds) - 1)) + DigitVal(ds[Len(ds)])

RECURSIVE Normalise(_, _)
Normalise(mant, exp) ==
    IF mant = 0 THEN [mant |-> 0, exp |-> 0]
    ELSE IF exp < 0 /\ mant % 10 = 0 THEN Normalise(mant \div 10, exp + 1)
    ELSE [mant |-> mant, exp |-> exp]

NoFloat == [kind |-> "none", neg |-> FALSE, mant |-> 0, exp |-> 0]

ParseFloat(s) ==
    LET u      == Unsigned(s)
        neg    == HasSign(s) /\ s[1] = "-"
        points == {i \in 1..Len(u) : u[i] = "."}
        ds     == SelectSeq(u, LAMBDA c : c # ".")
        frac   == IF points = {} THEN 0
                  ELSE Len(u) - (CHOOSE i \in points : TRUE)
    IN  IF Lower(s) = <<"n", "a", "n">>
        THEN [val |-> [NoFloat EXCEPT !.kind = "nan"], err |-> NoErr]
        ELSE IF Lower(u) \in {<<"i", "n", "f">>,
                              <<"i", "n", "f", "i", "n", "i", "t", "y">>}
        THEN [val |-> [NoFloat EXCEPT !.kind = "inf", !.neg = neg],
              err |-> NoErr]
        ELSE IF /\ Cardinality(points) <= 1
                /\ ds # <<>>
                /\ Bytes(ds) \subseteq Digits
        THEN [val |-> [kind |-> "finite", neg |-> neg,
                       mant |-> Normalise(DigitsValue(ds), 0 - frac).mant,
                       exp |-> Normalise(DigitsValue(ds), 0 - frac).exp],
              err |-> NoErr]
        ELSE [val |-> NoFloat,
              err |-> Err(<<"strconv.ParseFloat:", "parsing", "invalid", "syntax">>)]

(***************************************************************************)
(* Configuration                                                           *)
(***************************************************************************)
NoMicrosoftTTS ==
    [isNil |-> TRUE, Key |-> "", Region |-> "", VoiceName |-> "",
     Rate |-> <<>>, Volume |-> <<>>]

NoElevenLabsTTS == [isNil |-> TRUE, Key |-> "", VoiceID |-> "", ModelID |-> ""]

MicrosoftComplete ==
    [isNil |-> FALSE, Key |-> "ms-key", Region |-> "eastus",
     VoiceName |-> "en-US-AriaNeural",
     Rate |-> <<"1", ".", "0">>, Volume |-> <<"1">>]

ElevenLabsComplete ==
    [isNil |-> FALSE, Key |-> "el-key", VoiceID |-> "voice-id",
     ModelID |-> "model-id"]

BaseConfig ==
    [AppID |-> <<"a", "p", "p">>, AppCertificate |-> "cert",
     CustomerID |-> "customer", CustomerSecret |-> "secret",
     BaseURL |-> <<"h", ":", "/", "/", "x">>, AgentUID |-> "123456",
     LLMModel |-> "gpt", LLMURL |-> "llm-url", LLMToken |-> "llm-token",
     TTSVendor |-> "microsoft",
     MicrosoftTTS |-> MicrosoftComplete, ElevenLabsTTS |-> NoElevenLabsTTS,
     InputModalities |-> <<>>, OutputModalities |-> <<>>]

\* The configurations a process is started with in the handler runs.
Configs ==
    { BaseConfig,
      [BaseConfig EXCEPT !.MicrosoftTTS.Rate = <<>>],
      [BaseConfig EXCEPT !.MicrosoftTTS.Volume = <<"x">>],
      [BaseConfig EXCEPT !.MicrosoftTTS.Rate = <<"N", "a", "N">>],
      [BaseConfig EXCEPT !.TTSVendor = "elevenlabs",
                         !.ElevenLabsTTS = ElevenLabsComplete],
      [BaseConfig EXCEPT !.TTSVendor = "elevenlabs"],
      [BaseConfig EXCEPT !.TTSVendor = "polly"],
      [BaseConfig EXCEPT !.MicrosoftTTS = NoMicrosoftTTS] }

(***************************************************************************)
(* getTTSConfig                                                            *)
(***************************************************************************)
NoTTSConfig == [Vendor |-> "", Params |-> [none |-> TRUE]]

MissingMicrosoft == Err(<<"missing", "Microsoft", "TTS", "configuration">>)

MissingElevenLabs == Err(<<"missing", "ElevenLabs", "TTS", "configuration">>)

\* Mutant: rate and volume are not required.
getTTSConfigMicrosoft_RateOptional(cfg) ==
    LET ms     == cfg.MicrosoftTTS
        rate   == ParseFloat(IF ms.Rate = <<>> THEN <<"1">> ELSE ms.Rate)
        volume == ParseFloat(IF ms.Volume = <<>> THEN <<"1">> ELSE ms.Volume)
    IN  IF \/ ms.isNil
           \/ ms.Key = ""
           \/ ms.Region = ""
           \/ ms.VoiceName = ""
        THEN [tts |-> NoTTSConfig, err |-> MissingMicrosoft]
        ELSE IF IsErr(rate.err)
        THEN [tts |-> NoTTSConfig,
              err |-> Wrap(<<"invalid", "rate", "value:">>, rate.err)]
        ELSE IF IsErr(volume.err)
        THEN [tts |-> NoTTSConfig,
              err |-> Wrap(<<"invalid", "volume", "value:">>, volume.err)]
        ELSE [tts |-> [Vendor |-> "microsoft",
                       Params |-> [key |-> ms.Key,
                                   region |-> ms.Region,
                                   voice_name |-> ms.VoiceName,
                                   rate |-> rate.val,
                                   volume |-> volume.val]],
              err |-> NoErr]


\* Mutant: the volume is parsed and checked before the rate.
getTTSConfigMicrosoft_VolumeFirst(cfg) ==
    LET ms     == cfg.MicrosoftTTS
        rate   == ParseFloat(ms.Rate)
        volume == ParseFloat(ms.Volume)
    IN  IF \/ ms.isNil
           \/ ms.Key = ""
           \/ ms.Region = ""
           \/ ms.VoiceName = ""
           \/ ms.Rate = <<>>
           \/ ms.Volume = <<>>
        THEN [tts |-> NoTTSConfig, err |-> MissingMicrosoft]
        ELSE IF IsErr(volume.err)
        THEN [tts |-> NoTTSConfig,
              err |-> Wrap(<<"invalid", "volume", "value:">>, volume.err)]
        ELSE IF IsErr(rate.err)
        THEN [tts |-> NoTTSConfig,
              err |-> Wrap(<<"invalid", "rate", "value:">>, rate.err)]
        ELSE [tts |-> [Vendor |-> "microsoft",
                       Params |-> [key |-> ms.Key,
                                   region |-> ms.Region,
                                   voice_name |-> ms.VoiceName,
                                   rate |-> rate.val,
                                   volume |-> volume.val]],
              err |-> NoErr]

\* The case TTSVendorMicrosoft of getTTSConfig.
getTTSConfigMicrosoft(cfg) ==
    LET ms     == cfg.MicrosoftTTS
        rate   == ParseFloat(ms.Rate)
        volume == ParseFloat(ms.Volume)
    IN  IF \/ ms.isNil
           \/ ms.Key = ""
           \/ ms.Region = ""
           \/ ms.VoiceName = ""
           \/ ms.Rate = <<>>
           \/ ms.Volume = <<>>
        THEN [tts |-> NoTTSConfig, err |-> MissingMicrosoft]
        ELSE IF IsErr(rate.err)
        THEN [tts |-> NoTTSConfig,
              err |-> Wrap(<<"invalid", "rate", "value:">>, rate.err)]
        ELSE IF IsErr(volume.err)
        THEN [tts |-> NoTTSConfig,
              err |-> Wrap(<<"invalid", "volume", "value:">>, volume.err)]
        ELSE [tts |-> [Vendor |-> "microsoft",
                       Params |-> [key |-> ms.Key,
                                   region |-> ms.Region,
                                   voice_name |-> ms.VoiceName,
                                   rate |-> rate.val,
                                   volume |-> volume.val]],
              err |-> NoErr]

\* Mutant: the model id is not required.
getTTSConfigElevenLabs_ModelOptional(cfg) ==
    LET el == cfg.ElevenLabsTTS
    IN  IF \/ el.isNil
           \/ el.Key = ""
           \/ el.VoiceID = ""
        THEN [tts |-> NoTTSConfig, err |-> MissingElevenLabs]
        ELSE [tts |-> [Vendor |-> "elevenlabs",
                       Params |-> [api_key |-> el.Key,
                                   model_id |-> el.ModelID,
                                   voice_id |-> el.VoiceID]],
              err |-> NoErr]

\* The case TTSVendorElevenLabs of getTTSConfig.
getTTSConfigElevenLabs(cfg) ==
    LET el == cfg.ElevenLabsTTS
    IN  IF \/ el.isNil
           \/ el.Key = ""
           \/ el.ModelID = ""
           \/ el.VoiceID = ""
        THEN [tts |-> NoTTSConfig, err |-> MissingElevenLabs]
        ELSE [tts |-> [Vendor |-> "elevenlabs",
                       Params |-> [api_key |-> el.Key,
                                   model_id |-> el.ModelID,
                                   voice_id |-> el.VoiceID]],
              err |-> NoErr]

\* Mutant: an unknown vendor falls back to Microsoft whenever its block is set.
getTTSConfigDefault_Fallback(cfg) ==
    IF ~cfg.MicrosoftTTS.isNil
    THEN getTTSConfigMicrosoft(cfg)
    ELSE [tts |-> NoTTSConfig,
          err |-> Err(<<"unsupported", "TTS", "vendor:", cfg.TTSVendor>>)]

\* The default case of getTTSConfig.
getTTSConfigDefault(cfg) ==
    [tts |-> NoTTSConfig,
     err |-> Err(<<"unsupported", "TTS", "vendor:", cfg.TTSVendor>>)]

getTTSConfig(cfg) ==
    CASE cfg.TTSVendor = "microsoft" -> getTTSConfigMicrosoft(cfg)
      [] cfg.TTSVendor = "elevenlabs" -> getTTSConfigElevenLabs(cfg)
      [] OTHER -> getTTSConfigDefault(cfg)

(***************************************************************************)
(* Request validation                                                      *)
(***************************************************************************)
\* Mutant: the length of channel_name is not checked.
validateInviteRequest_NoLength(r) ==
    IF r.RequesterID = <<>>
    THEN Err(<<"requester_id", "is", "required">>)
    ELSE IF r.ChannelName = <<>>
    THEN Err(<<"channel_name", "is", "required">>)
    ELSE NoErr

\* Mutant: the upper bound is off by one (>= for >).
validateInviteRequest_OffByOne(r) ==
    IF r.RequesterID = <<>>
    THEN Err(<<"requester_id", "is", "required">>)
    ELSE IF r.ChannelName = <<>>
    THEN Err(<<"channel_name", "is", "required">>)
    ELSE IF Len(r.ChannelName) < MinChannelLen \/ Len(r.ChannelName) >= MaxChannelLen
    THEN Err(<<"channel_name", "length", "must", "be", "between", "3", "and",
               "64", "characters">>)
    ELSE NoErr

validateInviteRequest(r) ==
    IF r.RequesterID = <<>>
    THEN Err(<<"requester_id", "is", "required">>)
    ELSE IF r.ChannelName = <<>>
    THEN Err(<<"channel_name", "is", "required">>)
    ELSE IF Len(r.ChannelName) < MinChannelLen \/ Len(r.ChannelName) > MaxChannelLen
    THEN Err(<<"channel_name", "length", "must", "be", "between", "3", "and",
               "64", "characters">>)
    ELSE NoErr

validateRemoveRequest(r) ==
    IF r.AgentID = <<>>
    THEN Err(<<"agent_id", "is", "required">>)
    ELSE NoErr

(***************************************************************************)
(* randomString: letters[int(b[i]) % len(letters)] for each random byte    *)
(***************************************************************************)
Letters ==
    <<"a", "b", "c", "d", "e", "f", "g", "h", "i", "j", "k", "l", "m",
      "n", "o", "p", "q", "r", "s", "t", "u", "v", "w", "x", "y", "z">>

randomString(b) == [i \in 1..Len(b) |-> Letters[(b[i] % Len(Letters)) + 1]]

\* What rand.Read may fill the RandomLen bytes with.
RandomDraws == {Rep(RandomLen, 0), Rep(RandomLen, 255)}

(***************************************************************************)
(* The AgoraStartRequest that HandleInviteAgent builds                     *)
(***************************************************************************)
SystemMessageContent ==
    "You are a helpful assistant. Pretend that the text input is audio, and you are responding to it. Speak fast, clearly, and concisely."

AgoraStartRequest(cfg, r, token, ttsConfig, t, rnd) ==
    LET inputModalities  == IF Len(r.InputModalities) = 0
                            THEN <<"text">> ELSE r.InputModalities
        outputModalities == IF Len(r.OutputModalities) = 0
                            THEN <<"text", "audio">> ELSE r.OutputModalities
    IN  [Name |-> [prefix |-> "agent", nano |-> t, suffix |-> randomString(rnd)],
         Properties |->
           [Channel |-> r.ChannelName,
            Token |-> token,
            AgentRtcUID |-> cfg.AgentUID,
            RemoteRtcUIDs |-> getRemoteRtcUIDs(r.RequesterID),
            EnableStringUID |-> isStringUID(r.RequesterID),
            IdleTimeout |-> 30,
            ASR |-> [Language |-> "en-US", Task |-> "conversation"],
            LLM |-> [URL |-> cfg.LLMURL,
                     APIKey |-> cfg.LLMToken,
                     SystemMessages |-> <<[Role |-> "system",
                                           Content |-> SystemMessageContent]>>,
                     GreetingMessage |-> "Hello! How can I assist you today?",
                     FailureMessage |-> "Please wait a moment.",
                     MaxHistory |-> 10,
                     Params |-> [Model |-> cfg.LLMModel,
                                 MaxTokens |-> 1024,
                                 Temperature |-> [mant |-> 7, exp |-> -1],
                                 TopP |-> [mant |-> 95, exp |-> -2]],
                     InputModalities |-> inputModalities,
                     OutputModalities |-> outputModalities],
            TTS |-> ttsConfig,
            VAD |-> [SilenceDurationMS |-> 480,
                     SpeechDurationMS |-> 15000,
                     Threshold |-> [mant |-> 5, exp |-> -1],
                     InterruptDurationMS |-> 160,
                     PrefixPaddingMS |-> 300],
            AdvancedFeatures |-> [EnableAIVAD |-> FALSE, EnableBHVS |-> FALSE]]]

\* json.Marshal fails on a float64 that is NaN or an infinity.
MarshalErr(agoraReq) ==
    LET p == agoraReq.Properties.TTS.Params
    IN  IF /\ agoraReq.Properties.TTS.Vendor = "microsoft"
           /\ (p.rate.kind # "finite" \/ p.volume.kind # "finite")
        THEN Err(<<"json:", "unsupported", "value">>)
        ELSE NoErr

\* http.NewRequest fails when url.Parse rejects the URL; of its reasons the
\* inputs exercise the control byte.
NewRequestErr(url) ==
    IF Bytes(url) \cap CtlBytes # {}
    THEN Err(<<"net/url:", "invalid", "control", "character", "in", "URL">>)
    ELSE NoErr

JoinPath == <<"/", "j", "o", "i", "n">>
AgentsPath == <<"/", "a", "g", "e", "n", "t", "s", "/">>
LeavePath == <<"/", "l", "e", "a", "v", "e">>

\* fmt.Sprintf("%s/%s/join", s.config.BaseURL, s.config.AppID)
JoinURL(cfg) == Concat(<<cfg.BaseURL, <<"/">>, cfg.AppID, JoinPath>>)

\* Mutant: the agent id is left out of the path.
LeaveURL_NoAgentID(cfg, agentID) ==
    Concat(<<cfg.BaseURL, <<"/">>, cfg.AppID, AgentsPath, LeavePath>>)

\* fmt.Sprintf("%s/%s/agents/%s/leave", s.config.BaseURL, s.config.AppID, req.AgentID)
LeaveURL(cfg, agentID) ==
    Concat(<<cfg.BaseURL, <<"/">>, cfg.AppID, AgentsPath, agentID, LeavePath>>)

(***************************************************************************)
(* Requests, responses and the values the collaborators may return         *)
(***************************************************************************)
NoRequest ==
    [kind |-> "none", wellFormed |-> FALSE, RequesterID |-> <<>>,
     ChannelName |-> <<>>, InputModalities |-> <<>>, OutputModalities |-> <<>>,
     AgentID |-> <<>>]

\* InviteAgentRequest as c.ShouldBindJSON fills it from a well-formed body.
InviteAgentRequest(requester, channel, inMod, outMod) ==
    [NoRequest EXCEPT !.kind = "invite", !.wellFormed = TRUE,
                      !.RequesterID = requester, !.ChannelName = channel,
                      !.InputModalities = inMod, !.OutputModalities = outMod]

RemoveAgentRequest(agentID) ==
    [NoRequest EXCEPT !.kind = "remove", !.wellFormed = TRUE, !.AgentID = agentID]

RequesterIDs == {<<>>, <<"0">>, <<"u", "1">>}

ChannelLens ==
    {0, MinChannelLen - 1, MinChannelLen, MaxChannelLen, MaxChannelLen + 1}

ChannelNames == {Rep(n, "c") : n \in ChannelLens}

InputModalityLists == {<<>>, <<"video">>}

OutputModalityLists == {<<>>, <<"text">>}

\* The bodies POSTed to /agent/invite: one that does not bind, and the rest.
InviteBodies ==
    {[NoRequest EXCEPT !.kind = "invite"]} \cup
    {InviteAgentRequest(r, c, i, o) :
        r \in RequesterIDs, c \in ChannelNames,
        i \in InputModalityLists, o \in OutputModalityLists}

AgentIDs == {<<>>, <<"a", "1">>, <<"a", "\n">>}

RemoveBodies ==
    {[NoRequest EXCEPT !.kind = "remove"]} \cup
    {RemoveAgentRequest(a) : a \in AgentIDs}


\* Mutant: the token is requested for the subscriber role.
TokenRequest_Subscriber(channel) ==
    [TokenType |-> "rtc", Channel |-> channel, Uid |-> <<"0">>,
     RtcRole |-> "subscriber", ExpirationSeconds |-> 0]

TokenRequest(channel) ==
    [TokenType |-> "rtc", Channel |-> channel, Uid |-> <<"0">>,
     RtcRole |-> "publisher", ExpirationSeconds |-> 0]

\* What the token builder behind GenRtcToken may return.
BuilderOutcomes ==
    {[token |-> "tokA", err |-> NoErr],
     [token |-> "tokB", err |-> NoErr],
     [token |-> "", err |-> Err(<<"token", "builder", "failed">>)]}

GenRtcToken(tokenRequest, built) ==
    IF tokenRequest.Channel = <<>>
    THEN [token |-> "", err |-> Err(<<"invalid:", "missing", "channel", "name">>)]
    ELSE IF tokenRequest.Uid = <<>>
    THEN [token |-> "",
          err |-> Err(<<"invalid:", "missing", "user", "ID", "or", "account">>)]
    ELSE built

JSONObject(idType, id) == [kind |-> "object", idType |-> idType, id |-> id]

NotJSON == [kind |-> "invalid", idType |-> "absent", id |-> <<>>]

NoResp == [status |-> 0, body |-> NoBody]

\* Answers of the platform to a join it accepted (the agent was created) ...
JoinAccepted ==
    {[status |-> StatusOK, body |-> b] :
        b \in {JSONObject("string", <<"A", "1">>),
               JSONObject("string", <<"A", "2">>),
               JSONObject("absent", <<>>),
               JSONObject("number", <<"7">>),
               NotJSON}}

\* ... and to a join it refused (no agent was created).
JoinRefused ==
    {[status |-> st, body |-> b] :
        st \in {StatusBadRequest, 503},
        b \in {JSONObject("absent", <<>>), NotJSON}}

LeaveAnswers ==
    {[status |-> st, body |-> NoBody] : st \in {StatusOK, 404, StatusInternalServerError}}

NoPlatform == [state |-> "none", created |-> FALSE, resp |-> NoResp]

\* What client.Do returns: a response, or an error.
DoResp(resp) == [failed |-> FALSE, resp |-> resp]

DoErr == [failed |-> TRUE, resp |-> NoResp]

(***************************************************************************)
(* What the handlers return and write                                      *)
(***************************************************************************)
NoResult == [isNil |-> TRUE]

NoReturn == [outcome |-> "none", result |-> NoResult, err |-> NoErr]

ReturnErr(e) == [outcome |-> "error", result |-> NoResult, err |-> e]

ReturnResult(r) == [outcome |-> "result", result |-> r, err |-> NoErr]

\* A runtime panic: the function returns no value to its caller.
Panic == [outcome |-> "panic", result |-> NoResult, err |-> NoErr]

NoResponse == [status |-> 0, error |-> NoErr, result |-> NoResult]

\* c.JSON(status, gin.H{"error": err.Error()})
JSONError(status, e) == [status |-> status, error |-> e, result |-> NoResult]

\* Mutant: an error of the core function is answered as a client error.
Respond_ClientError(r) ==
    CASE r.outcome = "error" -> JSONError(StatusBadRequest, r.err)
      [] r.outcome = "result" ->
            [status |-> StatusOK, error |-> NoErr, result |-> r.result]
      [] OTHER -> JSONError(StatusInternalServerError, NoErr)

\* The tail of InviteAgent and of RemoveAgent: the response for what the core
\* function returned.  A panic is answered by the Recovery middleware of
\* gin.Default() with a bare 500.
Respond(r) ==
    CASE r.outcome = "error" -> JSONError(StatusInternalServerError, r.err)
      [] r.outcome = "result" ->
            [status |-> StatusOK, error |-> NoErr, result |-> r.result]
      [] OTHER -> JSONError(StatusInternalServerError, NoErr)

\* Mutant: agent_id is read with fmt.Sprint instead of the type assertion.
InviteResponse_AnyID(resp, request, t) ==
    IF resp.status # StatusOK
    THEN ReturnErr([msg |-> <<"failed", "to", "start", "conversation:">>,
                    status |-> resp.status, body |-> resp.body,
                    url |-> request.url])
    ELSE IF resp.body.kind # "object"
    THEN ReturnErr(Err(<<"failed", "to", "decode", "response:">>))
    ELSE ReturnResult([AgentID |-> resp.body.id,
                       CreateTS |-> t \div 1000000000,
                       Status |-> "RUNNING"])

\* Mutant: the error for a non-200 answer carries the status only.
InviteResponse_StatusOnly(resp, request, t) ==
    IF resp.status # StatusOK
    THEN ReturnErr([msg |-> <<"failed", "to", "start", "conversation:">>,
                    status |-> resp.status, body |-> NoBody,
                    url |-> request.url])
    ELSE IF resp.body.kind # "object"
    THEN ReturnErr(Err(<<"failed", "to", "decode", "response:">>))
    ELSE IF resp.body.idType # "string"
    THEN Panic
    ELSE ReturnResult([AgentID |-> resp.body.id,
                       CreateTS |-> t \div 1000000000,
                       Status |-> "RUNNING"])


\* Mutant: a missing agent_id is reported as an error.
InviteResponse_MissingIDError(resp, request, t) ==
    IF resp.status # StatusOK
    THEN ReturnErr([msg |-> <<"failed", "to", "start", "conversation:">>,
                    status |-> resp.status, body |-> resp.body,
                    url |-> request.url])
    ELSE IF resp.body.kind # "object"
    THEN ReturnErr(Err(<<"failed", "to", "decode", "response:">>))
    ELSE IF resp.body.idType # "string"
    THEN ReturnErr(Err(<<"missing", "agent_id">>))
    ELSE ReturnResult([AgentID |-> resp.body.id,
                       CreateTS |-> t \div 1000000000,
                       Status |-> "RUNNING"])

\* HandleInviteAgent after client.Do returned a response.
InviteResponse(resp, request, t) ==
    IF resp.status # StatusOK
    THEN ReturnErr([msg |-> <<"failed", "to", "start", "conversation:">>,
                    status |-> resp.status, body |-> resp.body,
                    url |-> request.url])
    ELSE IF resp.body.kind # "object"
    THEN ReturnErr(Err(<<"failed", "to", "decode", "response:">>))
    ELSE IF resp.body.idType # "string"
    THEN Panic
    ELSE ReturnResult([AgentID |-> resp.body.id,
                       CreateTS |-> t \div 1000000000,
                       Status |-> "RUNNING"])

\* HandleRemoveAgent after client.Do returned a response.
RemoveResponse(resp, agentID) ==
    IF resp.status # StatusOK
    THEN ReturnErr([Err(<<"failed", "to", "remove", "agent:">>)
                        EXCEPT !.status = resp.status])
    ELSE ReturnResult([Success |-> TRUE, AgentID |-> agentID])

\* The error HandleInviteAgent and HandleRemoveAgent return when client.Do
\* returned one.
DoFailed == Err(<<"failed", "to", "send", "request:">>)

(***************************************************************************)
(* The state machine                                                       *)
(***************************************************************************)
Idle == [h \in Handlers |-> "idle"]

\* The service constructed with one of the configurations cfgs, and the
\* goroutines ws to serve its requests.
InitOf(ws, cfgs) ==
    /\ config \in cfgs
    /\ workers = ws
    /\ now = 0
    /\ pc = Idle
    /\ req = [h \in Handlers |-> NoRequest]
    /\ tokenReqs = [h \in Handlers |-> <<>>]
    /\ tokenRets = [h \in Handlers |-> <<>>]
    /\ doRets = [h \in Handlers |-> <<>>]
    /\ ttsCalls = [h \in Handlers |-> 0]
    /\ sent = [h \in Handlers |-> <<>>]
    /\ platform = [h \in Handlers |-> NoPlatform]
    /\ ret = [h \in Handlers |-> NoReturn]
    /\ response = [h \in Handlers |-> NoResponse]
    /\ draws = [h \in Handlers |-> <<>>]
    /\ calls = <<>>

InitWith(ws) == InitOf(ws, Configs)

Init == InitWith({"h1"})

\* The handler is through: what the core returned, and the response written.
Done(h, r, resp) ==
    /\ pc' = [pc EXCEPT ![h] = "done"]
    /\ ret' = [ret EXCEPT ![h] = r]
    /\ response' = [response EXCEPT ![h] = resp]

Tick ==
    /\ now < MaxTime
    /\ now' = now + 1
    /\ UNCHANGED <<config, workers, calls, draws,
                   pc, req, tokenReqs, tokenRets, ttsCalls,
                   sent, doRets, platform, ret, response>>

\* InviteAgent up to the call of GenRtcToken in HandleInviteAgent, for a body
\* out of bodies.
InviteAgentOf(h, bodies) ==
    /\ h \in workers
    /\ pc[h] = "idle"
    /\ \E r \in bodies :
         /\ req' = [req EXCEPT ![h] = r]
         /\ IF ~r.wellFormed
            THEN /\ Done(h, NoReturn,
                         JSONError(StatusBadRequest, Err(<<"invalid", "request">>)))
                 /\ UNCHANGED tokenReqs
            ELSE IF IsErr(validateInviteRequest(r))
            THEN /\ Done(h, NoReturn,
                         JSONError(StatusBadRequest, validateInviteRequest(r)))
                 /\ UNCHANGED tokenReqs
            ELSE /\ pc' = [pc EXCEPT ![h] = "GenRtcToken"]
                 /\ tokenReqs' = [tokenReqs EXCEPT
                                    ![h] = Append(@, TokenRequest(r.ChannelName))]
                 /\ UNCHANGED <<ret, response>>
    /\ UNCHANGED <<config, workers, calls, draws,
                   now, tokenRets, ttsCalls, sent, doRets,
                   platform>>

InviteAgent(h) == InviteAgentOf(h, InviteBodies)

\* The tail of HandleInviteAgent once agoraReq is built from the clock value t
\* and the random bytes rnd: the error it returns early and the request it
\* hands to client.Do.
InviteSendOf(agoraReq, url, t, rnd) ==
    IF IsErr(MarshalErr(agoraReq))
    THEN [ret |-> ReturnErr(Wrap(<<"failed", "to", "marshal", "request:">>,
                                 MarshalErr(agoraReq))),
          tts |-> 1, send |-> <<>>,
          drawn |-> <<[nano |-> t, random |-> rnd]>>]
    ELSE IF IsErr(NewRequestErr(url))
    THEN [ret |-> ReturnErr(Wrap(<<"failed", "to", "create", "request:">>,
                                 NewRequestErr(url))),
          tts |-> 1, send |-> <<>>,
          drawn |-> <<[nano |-> t, random |-> rnd]>>]
    ELSE [ret |-> NoReturn, tts |-> 1,
          send |-> <<[method |-> "POST", url |-> url, body |-> agoraReq]>>,
          drawn |-> <<[nano |-> t, random |-> rnd]>>]

\* Mutant: the session name is built without the timestamp.
InviteSend_NameWithoutTime(cfg, r, token, ttsConfig, t, rnd) ==
    InviteSendOf([AgoraStartRequest(cfg, r, token, ttsConfig, t, rnd)
                     EXCEPT !.Name.nano = 0],
                 JoinURL(cfg), t, rnd)

\* Mutant: a modality outside {text, audio} is replaced by the default.
InviteSend_ModalitiesValidated(cfg, r, token, ttsConfig, t, rnd) ==
    LET a  == AgoraStartRequest(cfg, r, token, ttsConfig, t, rnd)
        ok == Bytes(r.InputModalities) \subseteq {"text", "audio"}
    IN  InviteSendOf(IF ok THEN a
                     ELSE [a EXCEPT !.Properties.LLM.InputModalities = <<"text">>],
                     JoinURL(cfg), t, rnd)

\* Mutant: the idle timeout is taken from the request.
InviteSend_IdleFromRequest(cfg, r, token, ttsConfig, t, rnd) ==
    InviteSendOf([AgoraStartRequest(cfg, r, token, ttsConfig, t, rnd)
                     EXCEPT !.Properties.IdleTimeout = Len(r.ChannelName)],
                 JoinURL(cfg), t, rnd)


\* Mutant: the configured modalities, when set, are the fallback for a request
\* that names none.
InviteSend_ConfiguredFallback(cfg, r, token, ttsConfig, t, rnd) ==
    LET a   == AgoraStartRequest(cfg, r, token, ttsConfig, t, rnd)
        ConfiguredList(s) ==
            [i \in DOMAIN Split(s, ",") |->
                IF TrimSpace(Split(s, ",")[i]) = Text THEN "text" ELSE "audio"]
        inp == IF Len(r.InputModalities) = 0 /\ cfg.InputModalities # <<>>
               THEN ConfiguredList(cfg.InputModalities)
               ELSE a.Properties.LLM.InputModalities
        out == IF Len(r.OutputModalities) = 0 /\ cfg.OutputModalities # <<>>
               THEN ConfiguredList(cfg.OutputModalities)
               ELSE a.Properties.LLM.OutputModalities
    IN  InviteSendOf([a EXCEPT !.Properties.LLM.InputModalities = inp,
                               !.Properties.LLM.OutputModalities = out],
                     JoinURL(cfg), t, rnd)

\* HandleInviteAgent from the system message to client.Do, with the token and
\* the TTS configuration in hand.
InviteSend(cfg, r, token, ttsConfig, t, rnd) ==
    InviteSendOf(AgoraStartRequest(cfg, r, token, ttsConfig, t, rnd),
                 JoinURL(cfg), t, rnd)

\* Mutant: the error of GenRtcToken is not checked.
InviteBuild_TokenErrIgnored(cfg, r, tok, t, rnd) ==
    IF IsErr(getTTSConfig(cfg).err)
    THEN [ret |-> ReturnErr(Wrap(<<"failed", "to", "get", "TTS", "config:">>,
                                 getTTSConfig(cfg).err)),
          tts |-> 1, send |-> <<>>, drawn |-> <<>>]
    ELSE InviteSend(cfg, r, tok.token, getTTSConfig(cfg).tts, t, rnd)

\* Mutant: the error of getTTSConfig is not checked, and the request goes out
\* with the empty TTS block.
InviteBuild_TTSErrIgnored(cfg, r, tok, t, rnd) ==
    IF IsErr(tok.err)
    THEN [ret |-> ReturnErr(Wrap(<<"failed", "to", "generate", "token:">>,
                                 tok.err)),
          tts |-> 0, send |-> <<>>, drawn |-> <<>>]
    ELSE InviteSend(cfg, r, tok.token, getTTSConfig(cfg).tts, t, rnd)

\* HandleInviteAgent from the return of GenRtcToken to client.Do: the error it
\* returns early, whether getTTSConfig was called, what time.Now() and
\* rand.Read gave it, and the request it hands to client.Do.
InviteBuild(cfg, r, tok, t, rnd) ==
    IF IsErr(tok.err)
    THEN [ret |-> ReturnErr(Wrap(<<"failed", "to", "generate", "token:">>,
                                 tok.err)),
          tts |-> 0, send |-> <<>>, drawn |-> <<>>]
    ELSE IF IsErr(getTTSConfig(cfg).err)
    THEN [ret |-> ReturnErr(Wrap(<<"failed", "to", "get", "TTS", "config:">>,
                                 getTTSConfig(cfg).err)),
          tts |-> 1, send |-> <<>>, drawn |-> <<>>]
    ELSE InviteSend(cfg, r, tok.token, getTTSConfig(cfg).tts, t, rnd)

\* GenRtcToken returns, and HandleInviteAgent runs on to client.Do with the
\* request r.
HandleInviteAgentWith(h, r, builds, rnds) ==
    /\ pc[h] = "GenRtcToken"
    /\ \E built \in builds, rnd \in rnds :
         LET tok == GenRtcToken(tokenReqs[h][Len(tokenReqs[h])], built)
             b   == InviteBuild(config, r, tok, now, rnd)
         IN  /\ tokenRets' = [tokenRets EXCEPT ![h] = Append(@, tok)]
             /\ ttsCalls' = [ttsCalls EXCEPT ![h] = @ + b.tts]
             /\ draws' = [draws EXCEPT ![h] = @ \o b.drawn]
             /\ sent' = [sent EXCEPT ![h] = @ \o b.send]
             /\ IF b.send = <<>>
                THEN /\ Done(h, b.ret, Respond(b.ret))
                     /\ UNCHANGED platform
                ELSE /\ pc' = [pc EXCEPT ![h] = "join"]
                     /\ platform' = [platform EXCEPT ![h].state = "pending"]
                     /\ UNCHANGED <<ret, response>>
    /\ UNCHANGED <<config, workers, calls, now, req, tokenReqs, doRets>>

\* Mutant: the request is kept in a field of the service that every handler
\* writes, so HandleInviteAgent may read the request of another invitation.
HandleInviteAgentOf_SharedRequest(h, builds, rnds) ==
    \E g \in workers :
        /\ req[g].kind = "invite"
        /\ tokenReqs[g] # <<>>
        /\ HandleInviteAgentWith(h, req[g], builds, rnds)

\* GenRtcToken returns one of builds, rand.Read gives one of rnds, and
\* HandleInviteAgent runs on to client.Do.
HandleInviteAgentOf(h, builds, rnds) ==
    HandleInviteAgentWith(h, req[h], builds, rnds)

HandleInviteAgent(h) == HandleInviteAgentOf(h, BuilderOutcomes, RandomDraws)

\* The platform handles a join that reached it and gives one of answers: it
\* creates the agent and answers 200, or refuses.
PlatformJoinOf(h, answers) ==
    /\ req[h].kind = "invite"
    /\ platform[h].state = "pending"
    /\ \E resp \in answers :
         platform' = [platform EXCEPT
                        ![h] = [state |-> "answered",
                                created |-> resp \in JoinAccepted,
                                resp |-> resp]]
    /\ UNCHANGED <<config, workers, calls, draws,
                   now, pc, req, tokenReqs, tokenRets, ttsCalls,
                   sent, doRets, ret, response>>

PlatformJoin(h) == PlatformJoinOf(h, JoinAccepted \cup JoinRefused)

\* client.Do returns the platform's answer; HandleInviteAgent and InviteAgent
\* run to their end.
JoinAnswered(h) ==
    /\ pc[h] = "join"
    /\ platform[h].state = "answered"
    /\ LET r == InviteResponse(platform[h].resp, sent[h][Len(sent[h])], now)
       IN  Done(h, r, Respond(r))
    /\ doRets' = [doRets EXCEPT ![h] = Append(@, DoResp(platform[h].resp))]
    /\ UNCHANGED <<config, workers, calls, draws,
                   now, req, tokenReqs, tokenRets, ttsCalls,
                   sent, platform>>

\* Mutant: a failed client.Do is tried again.
JoinFailed_Retry(h) ==
    /\ pc[h] = "join"
    /\ doRets' = [doRets EXCEPT ![h] = Append(@, DoErr)]
    /\ sent' = [sent EXCEPT ![h] = Append(@, @[Len(@)])]
    /\ UNCHANGED <<config, workers, calls, draws,
                   now, pc, req, tokenReqs, tokenRets, ttsCalls,
                   platform, ret, response>>

\* Mutant: the http.Client has no Timeout, so client.Do returns an error only
\* for an answer it could not read.
JoinFailed_NoTimeout(h) ==
    /\ pc[h] = "join"
    /\ platform[h].state = "answered"
    /\ LET r == ReturnErr([DoFailed EXCEPT !.url = sent[h][Len(sent[h])].url])
       IN  Done(h, r, Respond(r))
    /\ doRets' = [doRets EXCEPT ![h] = Append(@, DoErr)]
    /\ UNCHANGED <<config, workers, calls, draws,
                   now, req, tokenReqs, tokenRets, ttsCalls,
                   sent, platform>>

\* client.Do returns an error (the request was not delivered, or no answer came
\* within the client's Timeout), whatever the platform did or will do with it.
JoinFailed(h) ==
    /\ pc[h] = "join"
    /\ LET r == ReturnErr([DoFailed EXCEPT !.url = sent[h][Len(sent[h])].url])
       IN  Done(h, r, Respond(r))
    /\ doRets' = [doRets EXCEPT ![h] = Append(@, DoErr)]
    /\ UNCHANGED <<config, workers, calls, draws,
                   now, req, tokenReqs, tokenRets, ttsCalls,
                   sent, platform>>

\* HandleRemoveAgent up to client.Do: the error it returns early and the
\* request it hands to client.Do.
RemoveBuild(cfg, r) ==
    LET url == LeaveURL(cfg, r.AgentID)
    IN  IF IsErr(NewRequestErr(url))
        THEN [ret |-> ReturnErr(Wrap(<<"failed", "to", "create", "request:">>,
                                     NewRequestErr(url))),
              send |-> <<>>]
        ELSE [ret |-> NoReturn,
              send |-> <<[method |-> "POST", url |-> url, body |-> NoBody]>>]

\* RemoveAgent up to client.Do in HandleRemoveAgent, for a body out of bodies.
RemoveAgentOf(h, bodies) ==
    /\ h \in workers
    /\ pc[h] = "idle"
    /\ \E r \in bodies :
         /\ req' = [req EXCEPT ![h] = r]
         /\ IF ~r.wellFormed
            THEN /\ Done(h, NoReturn,
                         JSONError(StatusBadRequest, Err(<<"invalid", "request">>)))
                 /\ UNCHANGED <<sent, platform>>
            ELSE IF IsErr(validateRemoveRequest(r))
            THEN /\ Done(h, NoReturn,
                         JSONError(StatusBadRequest, validateRemoveRequest(r)))
                 /\ UNCHANGED <<sent, platform>>
            ELSE LET b == RemoveBuild(config, r)
                 IN  /\ sent' = [sent EXCEPT ![h] = @ \o b.send]
                     /\ IF b.send = <<>>
                        THEN /\ Done(h, b.ret, Respond(b.ret))
                             /\ UNCHANGED platform
                        ELSE /\ pc' = [pc EXCEPT ![h] = "leave"]
                             /\ platform' = [platform EXCEPT ![h].state = "pending"]
                             /\ UNCHANGED <<ret, response>>
    /\ UNCHANGED <<config, workers, calls, draws,
                   now, tokenReqs, tokenRets, ttsCalls, doRets>>

RemoveAgent(h) == RemoveAgentOf(h, RemoveBodies)

\* The platform handles a leave that reached it.
PlatformLeaveOf(h, answers) ==
    /\ req[h].kind = "remove"
    /\ platform[h].state = "pending"
    /\ \E resp \in answers :
         platform' = [platform EXCEPT
                        ![h] = [state |-> "answered", created |-> FALSE,
                                resp |-> resp]]
    /\ UNCHANGED <<config, workers, calls, draws,
                   now, pc, req, tokenReqs, tokenRets, ttsCalls,
                   sent, doRets, ret, response>>

PlatformLeave(h) == PlatformLeaveOf(h, LeaveAnswers)

\* client.Do returns the platform's answer; HandleRemoveAgent and RemoveAgent
\* run to their end.
LeaveAnswered(h) ==
    /\ pc[h] = "leave"
    /\ platform[h].state = "answered"
    /\ LET r == RemoveResponse(platform[h].resp, req[h].AgentID)
       IN  Done(h, r, Respond(r))
    /\ doRets' = [doRets EXCEPT ![h] = Append(@, DoResp(platform[h].resp))]
    /\ UNCHANGED <<config, workers, calls, draws,
                   now, req, tokenReqs, tokenRets, ttsCalls,
                   sent, platform>>

LeaveFailed(h) ==
    /\ pc[h] = "leave"
    /\ Done(h, ReturnErr(DoFailed), Respond(ReturnErr(DoFailed)))
    /\ doRets' = [doRets EXCEPT ![h] = Append(@, DoErr)]
    /\ UNCHANGED <<config, workers, calls, draws,
                   now, req, tokenReqs, tokenRets, ttsCalls,
                   sent, platform>>

\* The response is on the wire and the goroutine takes the next request.
NextRequest(h) ==
    /\ pc[h] = "done"
    /\ pc' = [pc EXCEPT ![h] = "idle"]
    /\ req' = [req EXCEPT ![h] = NoRequest]
    /\ tokenReqs' = [tokenReqs EXCEPT ![h] = <<>>]
    /\ tokenRets' = [tokenRets EXCEPT ![h] = <<>>]
    /\ doRets' = [doRets EXCEPT ![h] = <<>>]
    /\ ttsCalls' = [ttsCalls EXCEPT ![h] = 0]
    /\ sent' = [sent EXCEPT ![h] = <<>>]
    /\ platform' = [platform EXCEPT ![h] = NoPlatform]
    /\ ret' = [ret EXCEPT ![h] = NoReturn]
    /\ response' = [response EXCEPT ![h] = NoResponse]
    /\ draws' = [draws EXCEPT ![h] = <<>>]
    /\ UNCHANGED <<config, workers, calls, now>>

Next ==
    \/ Tick
    \/ \E h \in Handlers :
         \/ InviteAgent(h)
         \/ HandleInviteAgent(h)
         \/ PlatformJoin(h)
         \/ JoinAnswered(h)
         \/ JoinFailed(h)
         \/ RemoveAgent(h)
         \/ PlatformLeave(h)
         \/ LeaveAnswered(h)
         \/ LeaveFailed(h)
         \/ NextRequest(h)

Spec == Init /\ [][Next]_vars

\* What the code's scheduling guarantees of a handler once it runs: GenRtcToken
\* computes the token locally and returns, and client.Do returns within the
\* Timeout of its http.Client (30 s for the join, 10 s for the leave), with the
\* answer or with an error.  Nothing is guaranteed of the platform or of the
\* callers.
Fairness ==
    \A h \in Handlers :
        /\ WF_vars(HandleInviteAgent(h))
        /\ WF_vars(JoinAnswered(h) \/ JoinFailed(h))
        /\ WF_vars(LeaveAnswered(h) \/ LeaveFailed(h))

\* The configurations of the runs checked for termination: one with which an
\* invitation reaches the platform, and one with which it fails before.
LiveConfigs == {BaseConfig, [BaseConfig EXCEPT !.TTSVendor = "polly"]}

LiveInit == InitOf({"h1"}, LiveConfigs)

LiveSpec == LiveInit /\ [][Next]_vars /\ Fairness

(***************************************************************************)
(* Two handler goroutines serving requests at the same time                *)
(***************************************************************************)
ConcConfigs == {BaseConfig}

ConcInviteBodies ==
    {InviteAgentRequest(<<"0">>, Rep(MinChannelLen, "c"), <<>>, <<>>),
     InviteAgentRequest(<<"u", "1">>, Rep(MaxChannelLen, "c"),
                        <<"video">>, <<"text">>)}

ConcRemoveBodies == {RemoveAgentRequest(<<"a", "1">>)}

ConcBuilderOutcomes ==
    {[token |-> "tokA", err |-> NoErr], [token |-> "tokB", err |-> NoErr]}

\* Bytes rand.Read may give: 0 and 26 select the same letter, 255 another.
ConcRandomDraws == {Rep(RandomLen, 0), Rep(RandomLen, 26), Rep(RandomLen, 255)}

ConcJoinAnswers ==
    {[status |-> StatusOK, body |-> JSONObject("string", <<"A", "1">>)],
     [status |-> 503, body |-> NotJSON]}

ConcLeaveAnswers == {[status |-> StatusOK, body |-> NoBody]}

ConcInit == InitOf(Handlers, ConcConfigs)

ConcInviteAgent(h) == InviteAgentOf(h, ConcInviteBodies)

ConcHandleInviteAgent(h) ==
    HandleInviteAgentOf(h, ConcBuilderOutcomes, ConcRandomDraws)

ConcPlatformJoin(h) == PlatformJoinOf(h, ConcJoinAnswers)

ConcRemoveAgent(h) == RemoveAgentOf(h, ConcRemoveBodies)

ConcPlatformLeave(h) == PlatformLeaveOf(h, ConcLeaveAnswers)

ConcNext ==
    \/ Tick
    \/ \E h \in Handlers :
         \/ ConcInviteAgent(h)
         \/ ConcHandleInviteAgent(h)
         \/ ConcPlatformJoin(h)
         \/ JoinAnswered(h)
         \/ JoinFailed(h)
         \/ ConcRemoveAgent(h)
         \/ ConcPlatformLeave(h)
         \/ LeaveAnswered(h)
         \/ LeaveFailed(h)
         \/ NextRequest(h)

ConcSpec == ConcInit /\ [][ConcNext]_vars

(***************************************************************************)
(* The helpers applied on their own                                        *)
(***************************************************************************)
\* The bytes of the identities isStringUID is applied to: digits, the bytes
\* next to '0' and '9' in ASCII, and a letter.
UIDAlphabet == {"0", "5", "9", "/", ":", "a"}

UIDStrings == UNION {[1..n -> UIDAlphabet] : n \in 0..MaxUIDLen}

UIDInit == InitOf({}, {BaseConfig})

CallIsStringUID ==
    /\ calls = <<>>
    /\ \E s \in UIDStrings :
         calls' = <<[fn |-> "isStringUID", arg |-> s, out |-> isStringUID(s)]>>
    /\ UNCHANGED <<config, workers, now, pc, req, tokenReqs, tokenRets,
                   ttsCalls, sent, doRets, platform, ret, response, draws>>

UIDNext == CallIsStringUID

UIDSpec == UIDInit /\ [][UIDNext]_vars

TTSVendors == {"microsoft", "elevenlabs", "polly", "Microsoft", ""}

Rates == {<<>>, <<"1", ".", "0">>, <<"x">>, <<"N", "a", "N">>}

Volumes == {<<>>, <<"1">>, <<"x">>}

MicrosoftBlocks ==
    {NoMicrosoftTTS} \cup
    {[isNil |-> FALSE, Key |-> k, Region |-> r, VoiceName |-> v,
      Rate |-> ra, Volume |-> vo] :
        k \in {"", "ms-key"}, r \in {"", "eastus"},
        v \in {"", "en-US-AriaNeural"}, ra \in Rates, vo \in Volumes}

ElevenLabsBlocks ==
    {NoElevenLabsTTS} \cup
    {[isNil |-> FALSE, Key |-> k, VoiceID |-> v, ModelID |-> m] :
        k \in {"", "el-key"}, v \in {"", "voice-id"}, m \in {"", "model-id"}}

\* The configurations getTTSConfig is applied to.
TTSConfigs ==
    {[BaseConfig EXCEPT !.TTSVendor = v, !.MicrosoftTTS = m,
                        !.ElevenLabsTTS = e] :
        v \in TTSVendors, m \in MicrosoftBlocks, e \in ElevenLabsBlocks}

TTSInit == InitOf({}, TTSConfigs)

\* Mutant: getTTSConfig keeps the parsed rate and clears the string it read.
CallGetTTSConfig_ConsumesRate ==
    /\ Len(calls) < MaxCalls
    /\ calls' = Append(calls, [fn |-> "getTTSConfig", arg |-> config,
                               out |-> getTTSConfig(config)])
    /\ config' = [config EXCEPT !.MicrosoftTTS.Rate = <<>>]
    /\ UNCHANGED <<workers, now, pc, req, tokenReqs, tokenRets,
                   ttsCalls, sent, doRets, platform, ret, response, draws>>

\* s.getTTSConfig() is called on the service.
CallGetTTSConfig ==
    /\ Len(calls) < MaxCalls
    /\ calls' = Append(calls, [fn |-> "getTTSConfig", arg |-> config,
                               out |-> getTTSConfig(config)])
    /\ UNCHANGED <<config, workers, now, pc, req, tokenReqs, tokenRets,
                   ttsCalls, sent, doRets, platform, ret, response, draws>>

TTSNext == CallGetTTSConfig

TTSSpec == TTSInit /\ [][TTSNext]_vars


(***************************************************************************)
(* Validation of the configuration at startup                              *)
(***************************************************************************)
MaxModalities == 2

\* Mutant: the elements are looked up as they are, without strings.TrimSpace.
validateModalities_NoTrim(modalities) ==
    \/ modalities = <<>>
    \/ \A i \in DOMAIN Split(modalities, ",") :
          Split(modalities, ",")[i] \in validModalities

validateModalities(modalities) ==
    \/ modalities = <<>>
    \/ \A i \in DOMAIN Split(modalities, ",") :
          TrimSpace(Split(modalities, ",")[i]) \in validModalities

validateTTSConfig(cfg) ==
    CASE cfg.TTSVendor = "microsoft" ->
           IF cfg.MicrosoftTTS.isNil
           THEN Err(<<"config", "error:", "Microsoft", "TTS", "configuration",
                      "is", "missing">>)
           ELSE IF \/ cfg.MicrosoftTTS.Key = ""
                   \/ cfg.MicrosoftTTS.Region = ""
                   \/ cfg.MicrosoftTTS.VoiceName = ""
           THEN Err(<<"config", "error:", "Microsoft", "TTS", "configuration",
                      "is", "incomplete">>)
           ELSE NoErr
      [] cfg.TTSVendor = "elevenlabs" ->
           IF cfg.ElevenLabsTTS.isNil
           THEN Err(<<"config", "error:", "ElevenLabs", "TTS", "configuration",
                      "is", "missing">>)
           ELSE IF \/ cfg.ElevenLabsTTS.Key = ""
                   \/ cfg.ElevenLabsTTS.VoiceID = ""
                   \/ cfg.ElevenLabsTTS.ModelID = ""
           THEN Err(<<"config", "error:", "ElevenLabs", "TTS", "configuration",
                      "is", "incomplete">>)
           ELSE NoErr
      [] OTHER ->
           Err(<<"config", "error:", "Unsupported", "TTS", "vendor:",
                 cfg.TTSVendor>>)

ValidateEnvironment(cfg) ==
    IF cfg.AppID = <<>> \/ cfg.AppCertificate = ""
    THEN Err(<<"config", "error:", "Agora", "credentials", "(APP_ID,",
               "APP_CERTIFICATE)", "are", "not", "set">>)
    ELSE IF cfg.CustomerID = "" \/ cfg.CustomerSecret = "" \/ cfg.BaseURL = <<>>
    THEN Err(<<"config", "error:", "Agora", "Conversation", "AI",
               "credentials", "(CUSTOMER_ID,", "CUSTOMER_SECRET,", "BASE_URL)",
               "are", "not", "set">>)
    ELSE IF cfg.LLMURL = "" \/ cfg.LLMToken = ""
    THEN Err(<<"config", "error:", "LLM", "configuration", "(LLM_URL,",
               "LLM_TOKEN)", "is", "not", "set">>)
    ELSE IF cfg.TTSVendor = ""
    THEN Err(<<"config", "error:", "TTS_VENDOR", "is", "not", "set">>)
    ELSE IF IsErr(validateTTSConfig(cfg))
    THEN validateTTSConfig(cfg)
    ELSE IF cfg.InputModalities # <<>> /\ ~validateModalities(cfg.InputModalities)
    THEN Err(<<"config", "error:", "Invalid", "INPUT_MODALITIES", "format">>)
    ELSE IF /\ cfg.OutputModalities # <<>>
            /\ ~validateModalities(cfg.OutputModalities)
    THEN Err(<<"config", "error:", "Invalid", "OUTPUT_MODALITIES", "format">>)
    ELSE NoErr

\* setupServer: the configuration is validated, and the process exits
\* (log.Fatal) unless it is accepted; the handler starts serving otherwise.
setupServer ==
    /\ workers = {}
    /\ calls = <<>>
    /\ calls' = <<[fn |-> "ValidateEnvironment", arg |-> config,
                   out |-> ValidateEnvironment(config)]>>
    /\ workers' = IF IsErr(ValidateEnvironment(config)) THEN {} ELSE {"h1"}
    /\ UNCHANGED <<config, now, pc, req, tokenReqs, tokenRets,
                   ttsCalls, sent, doRets, platform, ret, response, draws>>

\* An element of a modalities string with blanks around it.
Padded == {l \o e \o r : l \in {<<>>, <<" ">>}, e \in validModalities,
                         r \in {<<>>, <<" ">>}}

\* The strings made of n > 0 padded elements with commas between them.
RECURSIVE Joined(_)
Joined(n) ==
    IF n = 1 THEN Padded
    ELSE {p \o <<",">> \o q : p \in Padded, q \in Joined(n - 1)}

WellFormedModalities == UNION {Joined(n) : n \in 1..MaxModalities}

\* Strings that are not lists of text and audio.
MalformedModalities ==
    {<<"v", "i", "d", "e", "o">>, <<" ">>, <<",">>, <<"T">> \o Tail(Text),
     Text \o <<",">>, <<",">> \o Text, Text \o <<",", ",">> \o Audio,
     Text \o Audio, Text \o <<" ">> \o Audio, Text \o <<";">> \o Audio,
     <<"t", " ">> \o Tail(Text), Text \o <<",">> \o <<"v">>}

ModalityStrings == {<<>>} \cup WellFormedModalities \cup MalformedModalities

\* The fields ValidateEnvironment requires, each of them emptied in turn.
EmptiedConfigs ==
    {[BaseConfig EXCEPT !.AppID = <<>>],
     [BaseConfig EXCEPT !.AppCertificate = ""],
     [BaseConfig EXCEPT !.CustomerID = ""],
     [BaseConfig EXCEPT !.CustomerSecret = ""],
     [BaseConfig EXCEPT !.BaseURL = <<>>],
     [BaseConfig EXCEPT !.LLMURL = ""],
     [BaseConfig EXCEPT !.LLMToken = ""],
     [BaseConfig EXCEPT !.TTSVendor = ""],
     [BaseConfig EXCEPT !.AgentUID = ""],
     [BaseConfig EXCEPT !.LLMModel = ""]}

ModalityConfigs ==
    {[BaseConfig EXCEPT !.InputModalities = i, !.OutputModalities = o] :
        i \in ModalityStrings, o \in {<<>>, Text, <<"x">>}} \cup
    {[BaseConfig EXCEPT !.InputModalities = i, !.OutputModalities = o] :
        i \in {<<>>, Audio, <<"x">>}, o \in ModalityStrings}

\* The configurations loadConfig may hand to ValidateEnvironment.
EnvConfigs == TTSConfigs \cup EmptiedConfigs \cup ModalityConfigs

EnvInit == InitOf({}, EnvConfigs)

EnvNext == setupServer

EnvSpec == EnvInit /\ [][EnvNext]_vars


\* The server from its start: the configuration is validated, and the handler
\* serves requests once it was accepted.
StartInit == InitOf({}, Configs)

StartNext == setupServer \/ Next

StartSpec == StartInit /\ [][StartNext]_vars


(***************************************************************************)
(* Invitations under configurations that differ in the modalities          *)
(***************************************************************************)
\* Configurations ValidateEnvironment accepts that differ only in the
\* configured modalities.
PayloadConfigs ==
    {[BaseConfig EXCEPT !.InputModalities = i, !.OutputModalities = o] :
        i \in {<<>>, Audio, Text \o <<",">> \o Audio}, o \in {<<>>, Text}}

PayloadRequests ==
    {InviteAgentRequest(<<"u", "1">>, Rep(MinChannelLen, "c"), i, o) :
        i \in InputModalityLists, o \in OutputModalityLists}

PayloadInit == InitOf({}, {BaseConfig})

\* HandleInviteAgent is run by a service holding the configuration cfg, on the
\* request r, with the token "tokA" from the issuer.
CallHandleInviteAgent ==
    /\ Len(calls) < MaxCalls
    /\ \E cfg \in PayloadConfigs, r \in PayloadRequests :
         calls' = Append(calls,
                    [fn  |-> "HandleInviteAgent",
                     arg |-> [config |-> cfg, req |-> r],
                     out |-> InviteBuild(cfg, r,
                                         [token |-> "tokA", err |-> NoErr],
                                         now, Rep(RandomLen, 0))])
    /\ UNCHANGED <<config, workers, now, pc, req, tokenReqs, tokenRets,
                   ttsCalls, sent, doRets, platform, ret, response, draws>>

PayloadNext == CallHandleInviteAgent

PayloadSpec == PayloadInit /\ [][PayloadNext]_vars


(***************************************************************************)
(* The middleware chain of the router: NoCache, CORShttpHeaders, Timestamp *)
(***************************************************************************)
MaxAllowLen == 3

StatusNoContent == 204

StatusForbidden == 403

StatusNotFound == 404

NoTime == [set |-> FALSE, layout |-> "", unix |-> 0]

\* time.Now().Format(time.RFC3339) at the clock value t
RFC3339(t) == [set |-> TRUE, layout |-> "RFC3339", unix |-> t]

\* The header map of a response; an empty value is a header that is not set.
NoHeaders ==
    [CacheControl |-> "", Expires |-> "", Pragma |-> "", ContentType |-> "",
     AllowOrigin |-> <<>>, AllowMethods |-> "", AllowHeaders |-> "",
     XTimestamp |-> NoTime]

\* The gin.Context of a request: the header map of its writer, and the status
\* and the headers that went out with the first write (wire).
NewContext(r) ==
    [origin |-> r.origin, method |-> r.method, header |-> NoHeaders,
     written |-> FALSE, status |-> StatusOK, wire |-> NoHeaders, body |-> "",
     aborted |-> FALSE, ran |-> FALSE, panicked |-> FALSE]

\* c.Header(key, value) and c.Writer.Header().Set(key, value): the map is
\* changed, the headers already written are not.
Header(c, key, value) == [c EXCEPT !.header[key] = value]

\* c.Writer.WriteHeaderNow(): status and headers go out once.
WriteHeaderNow(c, code) ==
    IF c.written THEN c
    ELSE [c EXCEPT !.written = TRUE, !.status = code, !.wire = c.header]

\* c.JSON(code, obj)
JSON(c, code, obj) ==
    LET d == IF c.header.ContentType = ""
             THEN Header(c, "ContentType", "application/json; charset=utf-8")
             ELSE c
    IN  IF d.written THEN d
        ELSE [WriteHeaderNow(d, code) EXCEPT !.body = obj]

\* c.AbortWithStatus(code)
AbortWithStatus(c, code) == [WriteHeaderNow(c, code) EXCEPT !.aborted = TRUE]

NoCache(c) ==
    Header(Header(Header(c,
        "CacheControl", "private, no-cache, no-store, must-revalidate"),
        "Expires", "-1"),
        "Pragma", "no-cache")

\* Mutant: the entries of the list are matched as prefixes of the origin.
isOriginAllowed_Prefix(allowOrigin, origin) ==
    \/ allowOrigin = <<"*">>
    \/ \E i \in DOMAIN Split(allowOrigin, ",") :
          LET allowed == Split(allowOrigin, ",")[i]
          IN  /\ Len(allowed) <= Len(origin)
              /\ SubSeq(origin, 1, Len(allowed)) = allowed

isOriginAllowed(allowOrigin, origin) ==
    \/ allowOrigin = <<"*">>
    \/ \E i \in DOMAIN Split(allowOrigin, ",") :
          origin = Split(allowOrigin, ",")[i]

\* What a request meets behind the middleware: a route handler that answers
\* with c.JSON, one that panics, or no route.
RouteOutcomes ==
    {[kind |-> "json", status |-> s] :
        s \in {StatusOK, StatusBadRequest, StatusInternalServerError}} \cup
    {[kind |-> "panic", status |-> 0], [kind |-> "noroute", status |-> 0]}

\* c.Next() in Timestamp: the route handler, when the path has one.
RouteHandler(c, o) ==
    CASE o.kind = "json" -> [JSON(c, o.status, "route") EXCEPT !.ran = TRUE]
      [] o.kind = "panic" -> [c EXCEPT !.ran = TRUE, !.panicked = TRUE]
      [] OTHER -> c

\* The header is set once c.Next() has returned; a panic beneath it unwinds
\* past the assignment.
Timestamp(c, t, o) ==
    LET d == RouteHandler(c, o)
    IN  IF d.panicked THEN d ELSE Header(d, "XTimestamp", RFC3339(t))

\* Mutant: a request from an origin that is not allowed is passed on.
CORShttpHeaders_PassThrough(allowOrigin, c, t, o) ==
    LET d == Header(Header(Header(c,
                 "AllowOrigin", c.origin),
                 "AllowMethods", "GET, POST, DELETE, PATCH, OPTIONS"),
                 "AllowHeaders", "Origin, Content-Type")
    IN  IF c.method = "OPTIONS"
        THEN AbortWithStatus(d, StatusNoContent)
        ELSE Timestamp(d, t, o)

CORShttpHeaders(allowOrigin, c, t, o) ==
    IF ~isOriginAllowed(allowOrigin, c.origin)
    THEN [JSON(Header(c, "ContentType", "application/json"),
               StatusForbidden, "Origin not allowed")
            EXCEPT !.aborted = TRUE]
    ELSE LET d == Header(Header(Header(c,
                      "AllowOrigin", c.origin),
                      "AllowMethods", "GET, POST, DELETE, PATCH, OPTIONS"),
                      "AllowHeaders", "Origin, Content-Type")
         IN  IF c.method = "OPTIONS"
             THEN AbortWithStatus(d, StatusNoContent)
             ELSE Timestamp(d, t, o)

\* The router of setupServer serving one request: gin.Default() with its
\* Recovery, then NoCache, CORShttpHeaders and Timestamp, then the route.  A
\* path without a route runs the middleware and is answered 404 after it.
ServeHTTP(allowOrigin, r, t, o) ==
    LET c == CORShttpHeaders(allowOrigin, NoCache(NewContext(r)), t, o)
        d == IF c.panicked
             THEN AbortWithStatus(c, StatusInternalServerError)
             ELSE c
    IN  IF o.kind = "noroute" /\ ~d.written
        THEN [WriteHeaderNow(Header(d, "ContentType", "text/plain"),
                             StatusNotFound)
                EXCEPT !.body = "404 page not found"]
        ELSE d

OriginAlphabet == {"a", "b", ",", "*", " "}

\* The values of CORS_ALLOW_ORIGIN.
AllowOrigins == UNION {[1..n -> OriginAlphabet] : n \in 0..MaxAllowLen}

\* The values of the Origin header, the absent one (empty) among them.
Origins ==
    {<<>>, <<"a">>, <<"b">>, <<"a", "b">>, <<"*">>, <<"a", ",", "b">>,
     <<" ", "b">>}

Methods == {"POST", "OPTIONS"}

RouterInit == InitOf({}, {BaseConfig})

\* A request arrives and is served by the router.
ServeRequest ==
    /\ calls = <<>>
    /\ \E a \in AllowOrigins, origin \in Origins, method \in Methods,
          o \in RouteOutcomes :
         calls' = <<[fn  |-> "ServeHTTP",
                     arg |-> [AllowOrigin |-> a, origin |-> origin,
                              method |-> method, route |-> o, now |-> now],
                     out |-> ServeHTTP(a, [origin |-> origin, method |-> method],
                                       now, o)]>>
    /\ UNCHANGED <<config, workers, now, pc, req, tokenReqs, tokenRets,
                   ttsCalls, sent, doRets, platform, ret, response, draws>>

RouterNext == Tick \/ ServeRequest

RouterSpec == RouterInit /\ [][RouterNext]_vars

(***************************************************************************)
(* The claims                                                              *)
(***************************************************************************)
\* HandleInviteAgent was called for the request handler h is serving.
InviteCore(h) == req[h].kind = "invite" /\ tokenReqs[h] # <<>>

\* HandleRemoveAgent was called for the request handler h is serving.
RemoveCore(h) ==
    /\ req[h].kind = "remove"
    /\ req[h].wellFormed
    /\ req[h].AgentID # <<>>
    /\ pc[h] \in {"leave", "done"}

TokenFailed(h) == tokenRets[h] # <<>> /\ IsErr(tokenRets[h][1].err)

\* client.Do returned a response with this handler's request.
Answered(h) == doRets[h] # <<>> /\ ~doRets[h][1].failed

\* The request fails the validation the claims describe.
FailsValidation(r) ==
    \/ ~r.wellFormed
    \/ /\ r.kind = "invite"
       /\ \/ r.RequesterID = <<>>
          \/ r.ChannelName = <<>>
          \/ Len(r.ChannelName) < 3
          \/ Len(r.ChannelName) > 64
    \/ r.kind = "remove" /\ r.AgentID = <<>>

EndsWith(m, v) ==
    Len(m) >= Len(v) /\ SubSeq(m, Len(m) - Len(v) + 1, Len(m)) = v

\* C1: every invitation HandleInviteAgent has handled ended either with a
\* result and an agent created on the platform, or with an error and no agent
\* created; an error is never returned for a join the platform accepted.
C1_NoPartialSuccess ==
    \A h \in Handlers :
        (InviteCore(h) /\ pc[h] = "done") =>
            \/ ret[h].outcome = "result" /\ platform[h].created
            \/ ret[h].outcome = "error" /\ ~platform[h].created

\* C2: when the token issuer returned an error, the invitation has returned a
\* "failed to generate token" error, getTTSConfig was not called and no request
\* was handed to client.Do in that invocation.
C2_TokenErrorAborts ==
    \A h \in Handlers :
        TokenFailed(h) =>
            /\ pc[h] = "done"
            /\ ret[h].outcome = "error"
            /\ Len(ret[h].err.msg) >= 4
            /\ SubSeq(ret[h].err.msg, 1, 4) = <<"failed", "to", "generate", "token:">>
            /\ ttsCalls[h] = 0
            /\ sent[h] = <<>>
            /\ platform[h].state = "none"

C2_Witness ==
    \E h \in Handlers : TokenFailed(h) /\ pc[h] = "done" /\ req[h].kind = "invite"

\* C3: when getTTSConfig failed in an invitation, the invitation has returned
\* an error that carries the vendor error, and nothing was handed to client.Do:
\* no payload reached the join endpoint.
C3_VendorErrorAborts ==
    \A h \in Handlers :
        (ttsCalls[h] > 0 /\ IsErr(getTTSConfig(config).err)) =>
            /\ pc[h] = "done"
            /\ ret[h].outcome = "error"
            /\ EndsWith(ret[h].err.msg, getTTSConfig(config).err.msg)
            /\ sent[h] = <<>>
            /\ doRets[h] = <<>>
            /\ platform[h].state = "none"

C3_Witness ==
    \E h \in Handlers :
        /\ ttsCalls[h] > 0
        /\ IsErr(getTTSConfig(config).err)
        /\ config.TTSVendor = "microsoft"

\* C4: a request that fails input validation is answered 400, and for it the
\* token issuer was not called, getTTSConfig was not run and nothing was handed
\* to client.Do.
C4_InvalidRequestStopsEarly ==
    \A h \in Handlers :
        (req[h].kind # "none" /\ FailsValidation(req[h])) =>
            /\ pc[h] = "done"
            /\ response[h].status = 400
            /\ tokenReqs[h] = <<>>
            /\ ttsCalls[h] = 0
            /\ sent[h] = <<>>
            /\ platform[h].state = "none"

C4_Witness ==
    \E h \in Handlers :
        /\ req[h].kind = "invite"
        /\ req[h].wellFormed
        /\ req[h].RequesterID # <<>>
        /\ Len(req[h].ChannelName) = 2
        /\ pc[h] = "done"

\* C5: validateInviteRequest accepts exactly the requests with a non-empty
\* requester_id and a channel_name of 3 to 64 bytes, only those reach
\* HandleInviteAgent, and the error of a rejection names the offending field.
C5_ValidateInviteRequest ==
    \A h \in Handlers :
        (req[h].kind = "invite" /\ req[h].wellFormed) =>
            LET r  == req[h]
                ok == /\ r.RequesterID # <<>>
                      /\ Len(r.ChannelName) >= 3
                      /\ Len(r.ChannelName) <= 64
                e  == validateInviteRequest(r)
            IN  /\ ~IsErr(e) <=> ok
                /\ InviteCore(h) <=> ok
                /\ ~ok => /\ response[h].error = e
                          /\ r.RequesterID = <<>> => Mentions(e, "requester_id")
                          /\ r.RequesterID # <<>> => Mentions(e, "channel_name")

C5_Witness ==
    \E h \in Handlers :
        /\ InviteCore(h)
        /\ req[h].RequesterID # <<>>
        /\ Len(req[h].ChannelName) = 64

C7_NoRetry ==
    \A h \in Handlers :
        /\ Len(tokenReqs[h]) <= 1
        /\ Len(tokenRets[h]) <= 1
        /\ Len(sent[h]) <= 1
        /\ Len(doRets[h]) <= 1
        /\ ( \/ TokenFailed(h)
             \/ doRets[h] # <<>> /\ doRets[h][1].failed
             \/ Answered(h) /\ doRets[h][1].resp.status # 200 ) =>
                /\ pc[h] = "done"
                /\ ret[h].outcome = "error"
                /\ response[h].status = 500

C7_Witness ==
    \E h \in Handlers :
        /\ req[h].kind = "invite"
        /\ doRets[h] # <<>>
        /\ doRets[h][1].failed
        /\ Len(sent[h]) = 1

\* C8: HandleInviteAgent has returned a result only when client.Do returned
\* status 200 with a body whose agent_id is a string; the AgentID returned is
\* that string and the Status is "RUNNING".
C8_InviteResultFromAnswer ==
    \A h \in Handlers :
        (req[h].kind = "invite" /\ ret[h].outcome = "result") =>
            /\ Answered(h)
            /\ doRets[h][1].resp.status = 200
            /\ doRets[h][1].resp.body.kind = "object"
            /\ doRets[h][1].resp.body.idType = "string"
            /\ ret[h].result.AgentID = doRets[h][1].resp.body.id
            /\ ret[h].result.Status = "RUNNING"

C8_Witness ==
    \E h \in Handlers :
        /\ req[h].kind = "invite"
        /\ ret[h].outcome = "result"
        /\ ret[h].result.AgentID = <<"A", "2">>

\* C9: when the platform answered the join with a status other than 200,
\* HandleInviteAgent has returned no result and an error carrying that status
\* and the body of the answer.
C9_JoinRefusedError ==
    \A h \in Handlers :
        (req[h].kind = "invite" /\ Answered(h) /\ doRets[h][1].resp.status # 200) =>
            /\ ret[h].outcome = "error"
            /\ ret[h].result = NoResult
            /\ ret[h].err.status = doRets[h][1].resp.status
            /\ ret[h].err.body = doRets[h][1].resp.body

C9_Witness ==
    \E h \in Handlers :
        /\ req[h].kind = "invite"
        /\ Answered(h)
        /\ doRets[h][1].resp.status = 503
        /\ doRets[h][1].resp.body = NotJSON

\* {baseURL}/{appID}/agents/{agentID}/leave for the request h is serving.
LeaveEndpoint(h) ==
    config.BaseURL \o <<"/">> \o config.AppID
        \o <<"/", "a", "g", "e", "n", "t", "s", "/">> \o req[h].AgentID
        \o <<"/", "l", "e", "a", "v", "e">>

\* What HandleRemoveAgent has returned for the answer it got.
LeaveOutcome(h) ==
    Answered(h) =>
        /\ doRets[h][1].resp.status = 200 =>
              /\ ret[h].outcome = "result"
              /\ ret[h].result = [Success |-> TRUE, AgentID |-> req[h].AgentID]
        /\ doRets[h][1].resp.status # 200 =>
              /\ ret[h].outcome = "error"
              /\ ret[h].result = NoResult
              /\ ret[h].err.status = doRets[h][1].resp.status

\* C10 as claimed: HandleRemoveAgent sends one POST to
\* {baseURL}/{appID}/agents/{agentID}/leave; on 200 it returns
\* {success: true, agentID}, on another status an error carrying the status.
C10_Original ==
    \A h \in Handlers :
        RemoveCore(h) =>
            /\ Len(sent[h]) = 1
            /\ sent[h][1].method = "POST"
            /\ sent[h][1].url = LeaveEndpoint(h)
            /\ LeaveOutcome(h)

\* C10 as amended: when http.NewRequest accepts the URL
\* {baseURL}/{appID}/agents/{agentID}/leave, HandleRemoveAgent sends one POST to
\* it, and on 200 returns {success: true, agentID}, on another status an error
\* carrying the status; when http.NewRequest rejects the URL it sends nothing
\* and returns a "failed to create request" error.
C10_Amended ==
    \A h \in Handlers :
        RemoveCore(h) =>
            IF IsErr(NewRequestErr(LeaveEndpoint(h)))
            THEN /\ sent[h] = <<>>
                 /\ pc[h] = "done"
                 /\ ret[h].outcome = "error"
                 /\ Len(ret[h].err.msg) >= 4
                 /\ SubSeq(ret[h].err.msg, 1, 4) =
                        <<"failed", "to", "create", "request:">>
            ELSE /\ Len(sent[h]) = 1
                 /\ sent[h][1].method = "POST"
                 /\ sent[h][1].url = LeaveEndpoint(h)
                 /\ LeaveOutcome(h)

C10_Witness ==
    \E h \in Handlers :
        /\ RemoveCore(h)
        /\ Answered(h)
        /\ doRets[h][1].resp.status = 200
        /\ ret[h].outcome = "result"

\* HandleInviteAgent or HandleRemoveAgent was called for h's request.
Called(h) == InviteCore(h) \/ RemoveCore(h)

\* Handler h is inside HandleInviteAgent or HandleRemoveAgent.
Running(h) == pc[h] \in {"GenRtcToken", "join", "leave"}

\* client.Do returned an error to handler h.
Unanswered(h) == doRets[h] # <<>> /\ doRets[h][1].failed

\* The join was answered 200 with a JSON object that has no string agent_id,
\* and HandleInviteAgent panicked on the type assertion.
NoAgentIDFault(h) ==
    /\ ret[h].outcome = "panic"
    /\ req[h].kind = "invite"
    /\ Answered(h)
    /\ doRets[h][1].resp.status = 200
    /\ doRets[h][1].resp.body.kind = "object"
    /\ doRets[h][1].resp.body.idType # "string"

\* An outbound call that got no answer has ended in a "failed to send
\* request" error.
TimeoutIsError(h) ==
    (Unanswered(h) /\ pc[h] = "done") =>
        /\ ret[h].outcome = "error"
        /\ Len(ret[h].err.msg) >= 4
        /\ SubSeq(ret[h].err.msg, 1, 4) = <<"failed", "to", "send", "request:">>

\* C11 as claimed, in what it says of the end of an operation: every
\* invitation and every removal that has ended has returned to its caller
\* either a result or an error, and an unanswered call has ended in an error.
C11_Original ==
    \A h \in Handlers :
        /\ (Called(h) /\ pc[h] = "done") => ret[h].outcome \in {"result", "error"}
        /\ TimeoutIsError(h)

\* C11 as amended: every invitation and every removal eventually ends, also
\* when the platform never answers: the unanswered call ends in a "failed to
\* send request" error.  It ends with a result or an error returned to its
\* caller, except for a join answered 200 without a string agent_id, where
\* HandleInviteAgent panics and returns neither.
C11_Amended ==
    \A h \in Handlers :
        /\ []((Called(h) /\ pc[h] = "done") =>
                 \/ ret[h].outcome \in {"result", "error"}
                 \/ NoAgentIDFault(h))
        /\ []TimeoutIsError(h)
        /\ Running(h) ~> (pc[h] = "done")

\* An invitation has ended although the platform never answered its join.
C11_Witness ==
    \E h \in Handlers :
        /\ req[h].kind = "invite"
        /\ pc[h] = "done"
        /\ sent[h] # <<>>
        /\ platform[h].state = "pending"
        /\ ret[h].outcome = "error"

\* Everything the model keeps for the request handler h is serving.
Local(h) ==
    <<pc[h], req[h], tokenReqs[h], tokenRets[h], ttsCalls[h], sent[h],
      doRets[h], platform[h], ret[h], response[h], draws[h]>>

\* What time.Now() and rand.Read gave invitation h for its name (a fixed
\* value when it never came to read them).
OwnDraw(h) ==
    IF draws[h] = <<>> THEN [nano |-> 0, random |-> Rep(RandomLen, 0)]
    ELSE draws[h][1]

\* HandleInviteAgent applied to h's own request, the configuration and the
\* token returned to h.
OwnBuild(h) ==
    InviteBuild(config, req[h], tokenRets[h][1], OwnDraw(h).nano,
                OwnDraw(h).random)

\* The payload handed to client.Do for invitation h is the one built from its
\* own request, the configuration and the token returned to it.
OwnPayload(h) ==
    (req[h].kind = "invite" /\ tokenRets[h] # <<>>) =>
        /\ sent[h] = OwnBuild(h).send
        /\ sent[h] # <<>> =>
              /\ sent[h][1].body.Properties.Channel = req[h].ChannelName
              /\ sent[h][1].body.Properties.RemoteRtcUIDs = <<req[h].RequesterID>>
              /\ sent[h][1].body.Properties.Token = tokenRets[h][1].token

\* What invitation h returned is determined by its own request, the
\* configuration, the token returned to it and the answer to its own join.
OwnInviteOutcome(h) ==
    (InviteCore(h) /\ pc[h] = "done") =>
        /\ IF doRets[h] = <<>> THEN ret[h] = OwnBuild(h).ret
           ELSE IF doRets[h][1].failed
           THEN ret[h] = ReturnErr([DoFailed EXCEPT !.url = sent[h][1].url])
           ELSE /\ doRets[h][1].resp = platform[h].resp
                /\ \E t \in 0..MaxTime :
                     ret[h] = InviteResponse(doRets[h][1].resp, sent[h][1], t)
        /\ response[h] = Respond(ret[h])

\* The same for a removal.
OwnRemoveOutcome(h) ==
    (RemoveCore(h) /\ pc[h] = "done") =>
        /\ sent[h] = RemoveBuild(config, req[h]).send
        /\ IF doRets[h] = <<>> THEN ret[h] = RemoveBuild(config, req[h]).ret
           ELSE IF doRets[h][1].failed THEN ret[h] = ReturnErr(DoFailed)
           ELSE /\ doRets[h][1].resp = platform[h].resp
                /\ ret[h] = RemoveResponse(doRets[h][1].resp, req[h].AgentID)
        /\ response[h] = Respond(ret[h])

\* A step writes the state of at most one request, and never the
\* configuration.
StepIsLocal ==
    /\ config' = config
    /\ \A g, h \in Handlers :
         g # h => (Local(g)' = Local(g) \/ Local(h)' = Local(h))

\* C12: with two handlers running invitations and removals at the same time,
\* no step writes the configuration or the state of more than one request, and
\* under every interleaving the payload built and the outcome returned for a
\* request are those computed from its own request, the configuration and the
\* returns of its own calls.
C12_NoSharedState ==
    /\ [](\A h \in Handlers :
             OwnPayload(h) /\ OwnInviteOutcome(h) /\ OwnRemoveOutcome(h))
    /\ [][StepIsLocal]_vars

\* Two invitations with different requests are in flight at the same time and
\* each has handed its own payload to client.Do.
C12_Witness ==
    /\ pc["h1"] = "join"
    /\ pc["h2"] = "join"
    /\ req["h1"] # req["h2"]
    /\ tokenRets["h1"] # tokenRets["h2"]
    /\ sent["h1"] # <<>>
    /\ sent["h2"] # <<>>

\* Invitations g and h are distinct and both built a payload.
BothBuilt(g, h) ==
    /\ g # h
    /\ req[g].kind = "invite"
    /\ req[h].kind = "invite"
    /\ sent[g] # <<>>
    /\ sent[h] # <<>>

SessionName(h) == sent[h][1].body.Name

\* The two invitations read the same timestamp and drew bytes that select the
\* same six letters.
SameDraw(g, h) ==
    /\ draws[g][1].nano = draws[h][1].nano
    /\ \A i \in 1..RandomLen :
         draws[g][1].random[i] % 26 = draws[h][1].random[i] % 26

\* C13 as claimed: any two payloads built by distinct invocations of
\* HandleInviteAgent carry different session names.
C13_Original ==
    \A g, h \in Handlers : BothBuilt(g, h) => SessionName(g) # SessionName(h)

\* C13 as amended: the session name is "agent-", the nanosecond timestamp
\* the invocation read, "-" and six lowercase letters, and two payloads built
\* by distinct invocations carry different names exactly when the invocations
\* read different timestamps or drew random bytes that differ modulo 26 at
\* some position.
C13_Amended ==
    \A g, h \in Handlers :
        BothBuilt(g, h) =>
            /\ SessionName(g).prefix = "agent"
            /\ SessionName(g).nano = draws[g][1].nano
            /\ Len(SessionName(g).suffix) = 6
            /\ Bytes(SessionName(g).suffix) \subseteq Bytes(Letters)
            /\ SessionName(g) # SessionName(h) <=> ~SameDraw(g, h)

\* Two invitations drew the same random bytes at different times and carry
\* different names.
C13_Witness ==
    \E g, h \in Handlers :
        /\ BothBuilt(g, h)
        /\ draws[g][1].random = draws[h][1].random
        /\ draws[g][1].nano # draws[h][1].nano
        /\ SessionName(g) # SessionName(h)

\* The applications of the helper fn made so far.
CallsOf(fn) == {i \in DOMAIN calls : calls[i].fn = fn}

\* C14: isStringUID returns false for every string made only of the digits
\* 0-9, the empty string and "0" among them, and true for every string that
\* holds a byte outside 0-9.
C14_IsStringUID ==
    \A i \in CallsOf("isStringUID") :
        LET s         == calls[i].arg
            allDigits == \A j \in 1..Len(s) :
                            s[j] \in {"0", "1", "2", "3", "4", "5", "6", "7",
                                      "8", "9"}
        IN  /\ allDigits => calls[i].out = FALSE
            /\ ~allDigits => calls[i].out = TRUE
            /\ s \in {<<>>, <<"0">>} => calls[i].out = FALSE

C14_Witness ==
    \E i \in CallsOf("isStringUID") :
        calls[i].arg = <<"0">> /\ calls[i].out = FALSE

\* C15: in the payload handed to client.Do the input modalities are ["text"]
\* when the request's list is absent or empty and the request's list unchanged
\* otherwise, the output modalities are ["text", "audio"] when the request's
\* list is absent or empty and the request's list unchanged otherwise, whatever
\* the elements are.
C15_Modalities ==
    \A h \in Handlers :
        (req[h].kind = "invite" /\ sent[h] # <<>>) =>
            LET llm == sent[h][1].body.Properties.LLM
            IN  /\ llm.InputModalities =
                      IF Len(req[h].InputModalities) = 0 THEN <<"text">>
                      ELSE req[h].InputModalities
                /\ llm.OutputModalities =
                      IF Len(req[h].OutputModalities) = 0 THEN <<"text", "audio">>
                      ELSE req[h].OutputModalities

\* A payload was sent with a modality outside {text, audio} passed through and
\* the default output modalities.
C15_Witness ==
    \E h \in Handlers :
        /\ req[h].kind = "invite"
        /\ sent[h] # <<>>
        /\ req[h].InputModalities = <<"video">>
        /\ req[h].OutputModalities = <<>>
        /\ sent[h][1].body.Properties.LLM.InputModalities = <<"video">>
        /\ sent[h][1].body.Properties.LLM.OutputModalities = <<"text", "audio">>

\* The Microsoft block lacks a field getTTSConfig requires.
MicrosoftIncomplete(cfg) ==
    \/ cfg.MicrosoftTTS.isNil
    \/ cfg.MicrosoftTTS.Key = ""
    \/ cfg.MicrosoftTTS.Region = ""
    \/ cfg.MicrosoftTTS.VoiceName = ""
    \/ cfg.MicrosoftTTS.Rate = <<>>
    \/ cfg.MicrosoftTTS.Volume = <<>>

ParsesAsNumber(s) == ~IsErr(ParseFloat(s).err)

\* C16: with vendor "microsoft", getTTSConfig returns an error and no payload
\* when the Microsoft block is absent or one of key, region, voiceName, rate,
\* volume is empty; with all five set and rate and volume parsing as numbers it
\* returns no error and a payload tagged "microsoft" with key, region and voice
\* name unchanged and rate and volume as the numbers parsed.
C16_Microsoft ==
    \A i \in CallsOf("getTTSConfig") :
        LET cfg == calls[i].arg
            ms  == cfg.MicrosoftTTS
            out == calls[i].out
        IN  cfg.TTSVendor = "microsoft" =>
              /\ MicrosoftIncomplete(cfg) =>
                    IsErr(out.err) /\ out.tts = NoTTSConfig
              /\ ( /\ ~MicrosoftIncomplete(cfg)
                   /\ ParsesAsNumber(ms.Rate)
                   /\ ParsesAsNumber(ms.Volume) ) =>
                    /\ ~IsErr(out.err)
                    /\ out.tts.Vendor = "microsoft"
                    /\ out.tts.Params.key = ms.Key
                    /\ out.tts.Params.region = ms.Region
                    /\ out.tts.Params.voice_name = ms.VoiceName
                    /\ out.tts.Params.rate = ParseFloat(ms.Rate).val
                    /\ out.tts.Params.volume = ParseFloat(ms.Volume).val
                    /\ out.tts.Params.rate.kind \in {"finite", "nan", "inf"}
                    /\ out.tts.Params.volume.kind \in {"finite", "nan", "inf"}
                    /\ (ms.Rate = <<"1", ".", "0">> /\ ms.Volume = <<"1">>) =>
                          out.tts.Params.rate = out.tts.Params.volume

\* getTTSConfig returned the payload for rate "1.0" and volume "1", both the
\* number 1.
C16_Witness ==
    \E i \in CallsOf("getTTSConfig") :
        /\ calls[i].arg.TTSVendor = "microsoft"
        /\ calls[i].arg.MicrosoftTTS.Rate = <<"1", ".", "0">>
        /\ ~IsErr(calls[i].out.err)
        /\ calls[i].out.tts.Params.rate =
              [kind |-> "finite", neg |-> FALSE, mant |-> 1, exp |-> 0]

\* C17: with vendor "elevenlabs", getTTSConfig returns an error and no payload
\* when the ElevenLabs block is absent or one of key, voiceID, modelID is empty,
\* and otherwise no error and a payload tagged "elevenlabs" whose api_key,
\* voice_id and model_id are the configured strings.
C17_ElevenLabs ==
    \A i \in CallsOf("getTTSConfig") :
        LET cfg == calls[i].arg
            el  == cfg.ElevenLabsTTS
            out == calls[i].out
        IN  cfg.TTSVendor = "elevenlabs" =>
              IF el.isNil \/ el.Key = "" \/ el.VoiceID = "" \/ el.ModelID = ""
              THEN IsErr(out.err) /\ out.tts = NoTTSConfig
              ELSE /\ ~IsErr(out.err)
                   /\ out.tts.Vendor = "elevenlabs"
                   /\ out.tts.Params =
                         [api_key |-> el.Key, voice_id |-> el.VoiceID,
                          model_id |-> el.ModelID]

C17_Witness ==
    \E i \in CallsOf("getTTSConfig") :
        /\ calls[i].arg.TTSVendor = "elevenlabs"
        /\ ~IsErr(calls[i].out.err)
        /\ calls[i].out.tts.Params.model_id = "model-id"

\* C18: for every vendor tag other than "microsoft" and "elevenlabs", the
\* empty tag among them, getTTSConfig returns no payload and an "unsupported
\* TTS vendor" error that ends with the tag, whatever credentials the
\* configuration holds.
C18_UnsupportedVendor ==
    \A i \in CallsOf("getTTSConfig") :
        LET cfg == calls[i].arg
            out == calls[i].out
        IN  cfg.TTSVendor \notin {"microsoft", "elevenlabs"} =>
              /\ out.tts = NoTTSConfig
              /\ IsErr(out.err)
              /\ Mentions(out.err, "unsupported")
              /\ Mentions(out.err, "vendor:")
              /\ out.err.msg[Len(out.err.msg)] = cfg.TTSVendor

\* getTTSConfig was applied with the empty tag to a configuration whose
\* Microsoft and ElevenLabs blocks are both complete.
C18_Witness ==
    \E i \in CallsOf("getTTSConfig") :
        /\ calls[i].arg.TTSVendor = ""
        /\ ~MicrosoftIncomplete(calls[i].arg)
        /\ ParsesAsNumber(calls[i].arg.MicrosoftTTS.Rate)
        /\ ParsesAsNumber(calls[i].arg.MicrosoftTTS.Volume)
        /\ calls[i].arg.ElevenLabsTTS = ElevenLabsComplete
        /\ IsErr(calls[i].out.err)

C20_FixedParameters ==
    \A h \in Handlers :
        (req[h].kind = "invite" /\ sent[h] # <<>>) =>
            LET p == sent[h][1].body.Properties
            IN  /\ p.IdleTimeout = 30
                /\ p.VAD = [SilenceDurationMS |-> 480,
                            SpeechDurationMS |-> 15000,
                            Threshold |-> [mant |-> 5, exp |-> -1],
                            InterruptDurationMS |-> 160,
                            PrefixPaddingMS |-> 300]
                /\ p.LLM.MaxHistory = 10
                /\ p.LLM.Params.Temperature = [mant |-> 7, exp |-> -1]
                /\ p.LLM.Params.TopP = [mant |-> 95, exp |-> -2]
                /\ p.LLM.Params.MaxTokens = 1024
                /\ p.AdvancedFeatures = [EnableAIVAD |-> FALSE, EnableBHVS |-> FALSE]

\* A payload was sent for a 64-byte channel, a string requester, modalities
\* given in the request and the ElevenLabs configuration.
C20_Witness ==
    \E h \in Handlers :
        /\ req[h].kind = "invite"
        /\ sent[h] # <<>>
        /\ Len(req[h].ChannelName) = 64
        /\ req[h].RequesterID = <<"u", "1">>
        /\ req[h].InputModalities # <<>>
        /\ config.TTSVendor = "elevenlabs"
        /\ sent[h][1].body.Properties.IdleTimeout = 30

\* The words an error could use to name a credential field: the name of the
\* struct field, of its JSON key and of its environment variable.
FieldWords ==
    [Key       |-> {"Key", "key", "api_key", "MICROSOFT_TTS_KEY",
                    "ELEVENLABS_API_KEY"},
     Region    |-> {"Region", "region", "MICROSOFT_TTS_REGION"},
     VoiceName |-> {"VoiceName", "voice_name", "MICROSOFT_TTS_VOICE_NAME"},
     Rate      |-> {"Rate", "rate", "MICROSOFT_TTS_RATE"},
     Volume    |-> {"Volume", "volume", "MICROSOFT_TTS_VOLUME"},
     VoiceID   |-> {"VoiceID", "voice_id", "ELEVENLABS_VOICE_ID"},
     ModelID   |-> {"ModelID", "model_id", "ELEVENLABS_MODEL_ID"}]

\* The required fields of the selected vendor's block that are empty.
EmptyFields(cfg) ==
    CASE cfg.TTSVendor = "microsoft" /\ ~cfg.MicrosoftTTS.isNil ->
           {f \in {"Key", "Region", "VoiceName", "Rate", "Volume"} :
               IF f \in {"Rate", "Volume"}
               THEN cfg.MicrosoftTTS[f] = <<>>
               ELSE cfg.MicrosoftTTS[f] = ""}
      [] cfg.TTSVendor = "elevenlabs" /\ ~cfg.ElevenLabsTTS.isNil ->
           {f \in {"Key", "VoiceID", "ModelID"} : cfg.ElevenLabsTTS[f] = ""}
      [] OTHER -> {}

\* C21: when getTTSConfig fails because exactly one required field of the
\* selected vendor is empty, the error it returns names that field; when it
\* fails because the vendor tag is unsupported, the error names the tag.
C21_ErrorNamesField ==
    \A i \in CallsOf("getTTSConfig") :
        LET cfg == calls[i].arg
            out == calls[i].out
        IN  /\ \A f \in EmptyFields(cfg) :
                 EmptyFields(cfg) = {f} =>
                    /\ IsErr(out.err)
                    /\ \E w \in FieldWords[f] : Mentions(out.err, w)
            /\ cfg.TTSVendor \notin {"microsoft", "elevenlabs"} =>
                 /\ IsErr(out.err)
                 /\ Mentions(out.err, cfg.TTSVendor)

\* C25: with vendor "microsoft" and all five fields set, a rate that does not
\* parse gives an "invalid rate value" error and a volume that does not parse
\* gives an "invalid volume value" error, neither of them the missing
\* configuration error; the rate is checked first, so with both unparseable
\* the rate error is returned; no payload is returned in either case.
C25_InvalidRateVolume ==
    \A i \in CallsOf("getTTSConfig") :
        LET cfg == calls[i].arg
            ms  == cfg.MicrosoftTTS
            out == calls[i].out
            rateErr   == Wrap(<<"invalid", "rate", "value:">>,
                              ParseFloat(ms.Rate).err)
            volumeErr == Wrap(<<"invalid", "volume", "value:">>,
                              ParseFloat(ms.Volume).err)
        IN  (cfg.TTSVendor = "microsoft" /\ ~MicrosoftIncomplete(cfg)) =>
              /\ ~ParsesAsNumber(ms.Rate) =>
                    /\ out.err = rateErr
                    /\ ~Mentions(out.err, "volume")
                    /\ out.tts = NoTTSConfig
              /\ (ParsesAsNumber(ms.Rate) /\ ~ParsesAsNumber(ms.Volume)) =>
                    /\ out.err = volumeErr
                    /\ ~Mentions(out.err, "rate")
                    /\ out.tts = NoTTSConfig
              /\ (~ParsesAsNumber(ms.Rate) \/ ~ParsesAsNumber(ms.Volume)) =>
                    /\ IsErr(out.err)
                    /\ out.err # MissingMicrosoft
                    /\ ~Mentions(out.err, "missing")
                    /\ SubSeq(out.err.msg, 1, 3) \in
                          {<<"invalid", "rate", "value:">>,
                           <<"invalid", "volume", "value:">>}

\* getTTSConfig was applied to a Microsoft configuration whose rate and volume
\* are both set and both unparseable, and returned the rate error.
C25_Witness ==
    \E i \in CallsOf("getTTSConfig") :
        /\ calls[i].arg.TTSVendor = "microsoft"
        /\ ~MicrosoftIncomplete(calls[i].arg)
        /\ calls[i].arg.MicrosoftTTS.Rate = <<"x">>
        /\ calls[i].arg.MicrosoftTTS.Volume = <<"x">>
        /\ SubSeq(calls[i].out.err.msg, 1, 3) = <<"invalid", "rate", "value:">>

\* C26: in every payload HandleInviteAgent built, the remote identities are the
\* one-element sequence holding the requester identity as it was received,
\* also for the identity "0", and the string-UID flag is isStringUID of that
\* identity.
C26_RemoteIdentities ==
    \A h \in Handlers : \A i \in DOMAIN sent[h] :
        req[h].kind = "invite" =>
            LET p == sent[h][i].body.Properties
            IN  /\ Len(p.RemoteRtcUIDs) = 1
                /\ p.RemoteRtcUIDs[1] = req[h].RequesterID
                /\ p.RemoteRtcUIDs[1] # <<"*">>
                /\ p.EnableStringUID = isStringUID(req[h].RequesterID)
                /\ p.EnableStringUID =
                      (\E k \in DOMAIN req[h].RequesterID :
                          req[h].RequesterID[k] \notin Digits)

\* A payload was built for the requester "0": the list holds "0" and the flag
\* is off.
C26_Witness ==
    \E h \in Handlers :
        /\ req[h].kind = "invite"
        /\ req[h].RequesterID = <<"0">>
        /\ sent[h] # <<>>
        /\ sent[h][1].body.Properties.RemoteRtcUIDs = << <<"0">> >>
        /\ ~sent[h][1].body.Properties.EnableStringUID

\* C27: every invitation asks the token issuer once, for the channel of the
\* request, with role publisher, identity "0" and no expiration, whatever the
\* requester identity and the configured agent UID; the token the issuer
\* returned is the token of the payload sent to the platform.
C27_TokenRequest ==
    \A h \in Handlers :
        InviteCore(h) =>
            /\ Len(tokenReqs[h]) = 1
            /\ Len(tokenRets[h]) <= 1
            /\ tokenReqs[h][1].TokenType = "rtc"
            /\ tokenReqs[h][1].Channel = req[h].ChannelName
            /\ tokenReqs[h][1].RtcRole = "publisher"
            /\ tokenReqs[h][1].Uid = <<"0">>
            /\ tokenReqs[h][1].ExpirationSeconds = 0
            /\ \A i \in DOMAIN sent[h] :
                 /\ tokenRets[h] # <<>>
                 /\ ~IsErr(tokenRets[h][1].err)
                 /\ sent[h][i].body.Properties.Token = tokenRets[h][1].token
                 /\ sent[h][i].body.Properties.Channel = tokenReqs[h][1].Channel

\* A payload carrying the issuer's token "tokB" was sent for a requester other
\* than "0", under a configured agent UID other than "0".
C27_Witness ==
    \E h \in Handlers :
        /\ InviteCore(h)
        /\ req[h].RequesterID = <<"u", "1">>
        /\ config.AgentUID # "0"
        /\ sent[h] # <<>>
        /\ tokenRets[h][1].token = "tokB"
        /\ sent[h][1].body.Properties.Token = "tokB"
        /\ sent[h][1].body.Properties.AgentRtcUID = config.AgentUID

\* The platform answered the join with status 200 and a JSON object without a
\* string agent_id.
NoStringAgentID(h) ==
    /\ req[h].kind = "invite"
    /\ Answered(h)
    /\ doRets[h][1].resp.status = StatusOK
    /\ doRets[h][1].resp.body.kind = "object"
    /\ doRets[h][1].resp.body.idType # "string"

\* C28: when the platform answered the join with status 200 and a decodable
\* body without a string agent_id, HandleInviteAgent has returned neither a
\* result nor an error to its caller: it ended in a fault, which the caller
\* does not get as a failure to report.
C28_MissingAgentIDFault ==
    \A h \in Handlers :
        NoStringAgentID(h) =>
            /\ pc[h] = "done"
            /\ ret[h].outcome = "panic"
            /\ ret[h].result = NoResult
            /\ ~IsErr(ret[h].err)
            /\ ~IsErr(response[h].error)
            /\ response[h].result = NoResult

\* HandleInviteAgent ended in the fault for an answer whose agent_id is a
\* number.
C28_Witness ==
    \E h \in Handlers :
        /\ NoStringAgentID(h)
        /\ doRets[h][1].resp.body.idType = "number"
        /\ ret[h] = Panic

\* The fields the configuration must hold are all set.
RequiredSet(cfg) ==
    /\ cfg.AppID # <<>>
    /\ cfg.AppCertificate # ""
    /\ cfg.CustomerID # ""
    /\ cfg.CustomerSecret # ""
    /\ cfg.BaseURL # <<>>
    /\ cfg.LLMURL # ""
    /\ cfg.LLMToken # ""
    /\ cfg.TTSVendor # ""

\* The selected vendor is known, its block is present and its key, region and
\* voice name (Microsoft) or key, voice id and model id (ElevenLabs) are set.
VendorBlockSet(cfg) ==
    \/ /\ cfg.TTSVendor = "microsoft"
       /\ ~cfg.MicrosoftTTS.isNil
       /\ cfg.MicrosoftTTS.Key # ""
       /\ cfg.MicrosoftTTS.Region # ""
       /\ cfg.MicrosoftTTS.VoiceName # ""
    \/ /\ cfg.TTSVendor = "elevenlabs"
       /\ ~cfg.ElevenLabsTTS.isNil
       /\ cfg.ElevenLabsTTS.Key # ""
       /\ cfg.ElevenLabsTTS.VoiceID # ""
       /\ cfg.ElevenLabsTTS.ModelID # ""

\* C22: ValidateEnvironment accepts a configuration exactly when AppID,
\* AppCertificate, CustomerID, CustomerSecret, BaseURL, LLMURL, LLMToken and
\* TTSVendor are set, the vendor is "microsoft" or "elevenlabs" with its block
\* present and its three fields set, and each configured modalities string
\* that is not empty is a comma-separated list of the elements text and
\* audio with blanks around them allowed; it returns an error otherwise.
C22_ValidateEnvironment ==
    \A i \in CallsOf("ValidateEnvironment") :
        LET cfg == calls[i].arg
        IN  ~IsErr(calls[i].out) <=>
              /\ RequiredSet(cfg)
              /\ VendorBlockSet(cfg)
              /\ cfg.InputModalities \in {<<>>} \cup WellFormedModalities
              /\ cfg.OutputModalities \in {<<>>} \cup WellFormedModalities

\* ValidateEnvironment accepted a configuration whose input modalities are
\* "text, audio", with the blank after the comma.
C22_Witness ==
    \E i \in CallsOf("ValidateEnvironment") :
        /\ calls[i].arg.InputModalities = Text \o <<",", " ">> \o Audio
        /\ ~IsErr(calls[i].out)
        /\ workers = {"h1"}

\* ValidateEnvironment accepted the configuration at startup.
Accepted ==
    \E i \in CallsOf("ValidateEnvironment") :
        calls[i].arg = config /\ ~IsErr(calls[i].out)

\* C29: once ValidateEnvironment has accepted the configuration, no invitation
\* fails in getTTSConfig with a missing-configuration or an unsupported-vendor
\* error, the Microsoft configurations with an empty rate or volume included.
C29_AcceptedResolves ==
    Accepted =>
        \A h \in Handlers :
            (req[h].kind = "invite" /\ ttsCalls[h] > 0 /\ pc[h] = "done") =>
                ~( /\ ret[h].outcome = "error"
                   /\ \/ Mentions(ret[h].err, "missing")
                      \/ Mentions(ret[h].err, "unsupported") )

\* The two configurations differ at most in the configured modalities.
SameButModalities(c, d) ==
    [c EXCEPT !.InputModalities = <<>>, !.OutputModalities = <<>>] =
    [d EXCEPT !.InputModalities = <<>>, !.OutputModalities = <<>>]

\* The modalities of the payload a run of HandleInviteAgent handed to client.Do.
ResolvedModalities(i) ==
    [input  |-> calls[i].out.send[1].body.Properties.LLM.InputModalities,
     output |-> calls[i].out.send[1].body.Properties.LLM.OutputModalities]

\* C30: two invitations with equal requests, under configurations that differ
\* only in the configured InputModalities and OutputModalities strings, build
\* payloads with equal input and output modalities: the modalities of the
\* request when it names some, the defaults <<text>> and <<text, audio>>
\* otherwise, never the configured ones.
C30_ModalitiesFromRequest ==
    \A i, j \in CallsOf("HandleInviteAgent") :
        ( /\ calls[i].arg.req = calls[j].arg.req
          /\ SameButModalities(calls[i].arg.config, calls[j].arg.config) ) =>
            /\ Len(calls[i].out.send) = 1
            /\ Len(calls[j].out.send) = 1
            /\ ResolvedModalities(i) = ResolvedModalities(j)

\* Two invitations with the same request, which names no modalities, ran
\* under configurations with different input and output modalities.
C30_Witness ==
    \E i, j \in CallsOf("HandleInviteAgent") :
        /\ calls[i].arg.req = calls[j].arg.req
        /\ calls[i].arg.req.InputModalities = <<>>
        /\ calls[i].arg.req.OutputModalities = <<>>
        /\ calls[i].arg.config.InputModalities = <<>>
        /\ calls[j].arg.config.InputModalities = Audio
        /\ calls[i].arg.config.OutputModalities = <<>>
        /\ calls[j].arg.config.OutputModalities = Text
        /\ ResolvedModalities(j) =
              [input |-> <<"text">>, output |-> <<"text", "audio">>]

\* The origin is one of the entries of the comma-separated list a: it holds no
\* comma, and it stands in a between two commas or the ends of a.
IsEntry(a, origin) ==
    /\ \A k \in DOMAIN origin : origin[k] # ","
    /\ \E i \in 1..(Len(a) + 1) :
          /\ i = 1 \/ a[i - 1] = ","
          /\ i + Len(origin) - 1 <= Len(a)
          /\ SubSeq(a, i, i + Len(origin) - 1) = origin
          /\ i + Len(origin) = Len(a) + 1 \/ a[i + Len(origin)] = ","

\* C23: the route handler runs only for a request whose Origin is allowed,
\* that is, AllowOrigin is "*" or the Origin is one of its comma-separated
\* entries as written; every other request, the one without an Origin under a
\* list of named origins among them, is answered 403 by the CORS middleware
\* and the route handler does not run.  The response to an allowed origin
\* carries it in Access-Control-Allow-Origin.
C23_CORS ==
    \A i \in CallsOf("ServeHTTP") :
        LET a       == calls[i].arg.AllowOrigin
            origin  == calls[i].arg.origin
            out     == calls[i].out
            allowed == a = <<"*">> \/ IsEntry(a, origin)
        IN  /\ out.ran => allowed
            /\ ~allowed =>
                  /\ out.written
                  /\ out.status = StatusForbidden
                  /\ out.aborted
                  /\ ~out.ran
            /\ (origin = <<>> /\ a \in {<<"a">>, <<"a", ",", "b">>}) =>
                  out.status = StatusForbidden /\ ~out.ran
            /\ allowed =>
                  /\ out.status # StatusForbidden
                  /\ out.written
                  /\ out.wire.AllowOrigin = origin
                  /\ out.header.AllowOrigin = origin

\* Under the list "a,b" a request from "b" reached its route handler and one
\* from "ab" would not: the served request is the one from "b", answered with
\* the origin echoed.
C23_Witness ==
    \E i \in CallsOf("ServeHTTP") :
        /\ calls[i].arg.AllowOrigin = <<"a", ",", "b">>
        /\ calls[i].arg.origin = <<"b">>
        /\ calls[i].arg.method = "POST"
        /\ calls[i].out.ran
        /\ calls[i].out.status = StatusOK
        /\ calls[i].out.wire.AllowOrigin = <<"b">>

\* C24: every response of the router with the NoCache, CORS and Timestamp
\* middleware carries an X-Timestamp header holding an RFC3339 time, whatever
\* the outcome of the request.  Read generously: the header counts when it is
\* in the header map of the response writer, even if it was set after the
\* headers had gone out.
C24_TimestampOnEveryResponse ==
    \A i \in CallsOf("ServeHTTP") :
        calls[i].out.written =>
            /\ calls[i].out.header.XTimestamp.set
            /\ calls[i].out.header.XTimestamp.layout = "RFC3339"

====
